---- MODULE Spec2Model ----
(***************************************************************************)
(* Verification model of the colour-science core of                        *)
(* color-palette-generator: colour mixing (colorUtils), the mixing         *)
(* animation generator, the Delta E wrappers and the WCAG compliance check *)
(* with its suggestion search (advancedColorUtils), and of the state the   *)
(* mixer components and the palette display keep around them: the mixers'  *)
(* colour lists, results and timers, the extracted colours and the         *)
(* selection.                                                              *)
(*                                                                         *)
(* Conventions.                                                            *)
(*  - A JavaScript string is a sequence of one-character strings, so that  *)
(*    parsing and formatting of hex colours are real conversions.          *)
(*  - A colour inside chroma-js is an RGB triple <<r, g, b>> of 8-bit      *)
(*    channels plus an alpha byte.                                         *)
(*  - A real number is a rational <<num, den>> or a fixed-point integer    *)
(*    whose unit is named where it is introduced.                          *)
(*  - A call that may throw returns a record whose kind is "ok" or         *)
(*    "throw"; try/catch is the test on that kind.                         *)
(***************************************************************************)
EXTENDS Integers, Sequences, FiniteSets, TLC

VARIABLES
  colors,        \* mixMultipleColors / mixColors: the ColorInfo[] argument
  ratio,         \* mixColors: the ratio argument, a rational <<num, den>>
  mixPc,         \* "idle" | "ready" | "done"
  mixCall,       \* which mixer entry point was called
  mixOut,        \* what the call returned or threw
  animColors,    \* generateColorMixingAnimation: the colors argument
  steps,         \* generateColorMixingAnimation: the steps argument
  animI,         \* the loop variable i
  frames,        \* the frames array built so far
  lastJitter,    \* the jitter drawn for the frame pushed last (hundredths)
  animPc,        \* "idle" | "loop" | "done"
  color1,        \* calculateDeltaE2000 / calculateDeltaE94: first argument
  color2,        \* second argument
  dePc,          \* "idle" | "ready" | "done"
  deCall,        \* which Delta E function was called
  deOut,         \* what the call returned or threw
  foreground,    \* checkWCAGCompliance: first argument
  background,    \* second argument
  wcagPc,        \* "idle" | "ready" | "light" | "dark" | "done"
  roundedRatio,  \* contrast ratio rounded to 2 decimals (hundredths)
  aaLevel,       \* [normal, large]
  aaaLevel,      \* [normal, large]
  lightVersion, lightRatio, lightIterations,
  darkVersion, darkRatio, darkIterations,
  wcagOut,       \* the WCAGResult returned, or a throw
  blindColors,   \* simulateColorBlindness: the colors argument
  blindPc,       \* "idle" | "ready" | "compare" | "done"
  protanomaly, deuteranomaly, tritanomaly, monochromacy,
  variantIndex,  \* evaluateColorBlindnessAccessibility: the forEach index
  pairI, pairJ,  \* the loop variables i and j
  issues,        \* the issues array built so far
  compared,      \* the calls of calculateDeltaE2000 made so far
  blindOut,      \* the ColorBlindnessResult returned
  utilCall,      \* which conversion or classification function was called
  utilArg,       \* its argument(s)
  utilOut,       \* what it returned or threw
  component,     \* which React component is mounted, "none" when none is
  mixingColors,  \* mixingColors1..3: the colour list of each mixer
  mixedColor,    \* mixedColor1..3: the mixed result of each mixer, or null
  isAnimating,   \* Elementary: flag per mixer; MiddleSchool: one flag
  animatingMixer,   \* Elementary: the mixer being animated, or null
  isAnimatingMixer, \* MiddleSchool: flag per mixer
  processingRef, \* MiddleSchool: processingRef.current
  lastMixedRef,  \* MiddleSchool: lastMixedRef.current
  timers,        \* the pending setTimeout callbacks, in order of insertion
  userEvents,    \* how many user events have been handled
  palette,          \* MiddleSchoolPaletteDisplay: palette.colors (a prop)
  extractedColors,  \* MiddleSchoolPaletteDisplay: the extracted colours
  selectedColor,    \* MiddleSchoolPaletteDisplay: the selected colour, or null
  isEyedropperMode, \* MiddleSchoolPaletteDisplay: eyedropper switch
  sampled        \* how many new colours the image and the mixers have produced

mixVars == <<colors, ratio, mixPc, mixCall, mixOut>>
animVars == <<animColors, steps, animI, frames, lastJitter, animPc>>
deVars == <<color1, color2, dePc, deCall, deOut>>
wcagVars == <<foreground, background, wcagPc, roundedRatio, aaLevel, aaaLevel,
              lightVersion, lightRatio, lightIterations,
              darkVersion, darkRatio, darkIterations, wcagOut>>
blindVars == <<blindColors, blindPc, protanomaly, deuteranomaly, tritanomaly,
               monochromacy, variantIndex, pairI, pairJ, issues, compared, blindOut>>

utilVars == <<utilCall, utilArg, utilOut>>

mixerVars == <<mixingColors, mixedColor, isAnimating, animatingMixer,
               isAnimatingMixer, processingRef, lastMixedRef, timers, userEvents>>
displayVars == <<palette, extractedColors, selectedColor, isEyedropperMode, sampled>>
uiVars == <<component, mixerVars, displayVars>>

vars == <<mixVars, animVars, deVars, wcagVars, blindVars, utilVars, uiVars>>

----------------------------------------------------------------------------
(* Bounds of the model.                                                    *)

MaxColors == 3
MaxAnimColors == 3
MaxSteps == 3
GrayCount == 3
MaxSamples == 9
MaxUserEvents == 4

----------------------------------------------------------------------------
(* Strings and hex digits.                                                 *)

HexLower == <<"0","1","2","3","4","5","6","7","8","9","a","b","c","d","e","f">>
HexUpper == <<"0","1","2","3","4","5","6","7","8","9","A","B","C","D","E","F">>

IsHexDigit(ch) == \E i \in 1..16 : HexLower[i] = ch \/ HexUpper[i] = ch

HexVal(ch) == (CHOOSE i \in 1..16 : HexLower[i] = ch \/ HexUpper[i] = ch) - 1

AllHex(s) == \A i \in 1..Len(s) : IsHexDigit(s[i])

Min2(a, b) == IF a < b THEN a ELSE b
Max2(a, b) == IF a > b THEN a ELSE b

\* JavaScript Math.round of the rational n / d (d > 0): floor(n / d + 1/2).
RoundDiv(n, d) == (2 * n + d) \div (2 * d)

\* chroma-js clip_rgb followed by the rounding hex() and rgb() apply.
ClipChannel(x) == Max2(0, Min2(255, x))

----------------------------------------------------------------------------
(* chroma-js: parsing, formatting, HSL.                                    *)

\* The colour chroma(...) could not parse: the constructor throws.
BadColor == [ok |-> FALSE, rgb |-> <<0, 0, 0>>, a |-> 0]

MkColor(r, g, b, alpha) == [ok |-> TRUE, rgb |-> <<r, g, b>>, a |-> alpha]

\* The W3C/X11 names the model's inputs use (chroma-js knows the full table).
NamedColors ==
  { << <<"b","l","a","c","k">>, <<0, 0, 0>> >>,
    << <<"w","h","i","t","e">>, <<255, 255, 255>> >>,
    << <<"r","e","d">>, <<255, 0, 0>> >>,
    << <<"b","l","u","e">>, <<0, 0, 255>> >> }

IsNamed(s) == \E p \in NamedColors : p[1] = s

NamedRgb(s) == (CHOOSE p \in NamedColors : p[1] = s)[2]

\* The part of a hex string after the optional leading '#'.
HexBody(s) == IF Len(s) > 0 /\ s[1] = "#" THEN Tail(s) ELSE s

Byte(hi, lo) == 16 * HexVal(hi) + HexVal(lo)

\* chroma(string): a named colour, or #rgb, #rrggbb, #rgba, #rrggbbaa with
\* the '#' optional; anything else throws.
chroma(s) ==
  IF IsNamed(s) THEN LET c == NamedRgb(s) IN MkColor(c[1], c[2], c[3], 255)
  ELSE LET h == HexBody(s) IN
    IF ~AllHex(h) THEN BadColor
    ELSE IF Len(h) = 6 THEN
      MkColor(Byte(h[1], h[2]), Byte(h[3], h[4]), Byte(h[5], h[6]), 255)
    ELSE IF Len(h) = 3 THEN
      MkColor(Byte(h[1], h[1]), Byte(h[2], h[2]), Byte(h[3], h[3]), 255)
    ELSE IF Len(h) = 8 THEN
      MkColor(Byte(h[1], h[2]), Byte(h[3], h[4]), Byte(h[5], h[6]), Byte(h[7], h[8]))
    ELSE IF Len(h) = 4 THEN
      MkColor(Byte(h[1], h[1]), Byte(h[2], h[2]), Byte(h[3], h[3]), Byte(h[4], h[4]))
    ELSE BadColor

\* chroma.valid(string): whether the constructor accepts it.
chromaValid(s) == chroma(s).ok

Hex2(c) == <<HexLower[(c \div 16) + 1], HexLower[(c % 16) + 1]>>

\* Color.hex(): '#' and lower-case digit pairs; the alpha byte only when the
\* colour is not opaque.
chromaHex(c) ==
  <<"#">> \o Hex2(c.rgb[1]) \o Hex2(c.rgb[2]) \o Hex2(c.rgb[3])
          \o (IF c.a < 255 THEN Hex2(c.a) ELSE <<>>)

\* chroma(r, g, b) on integers: channels clipped to [0, 255].
chromaRgb(r, g, b) == MkColor(ClipChannel(r), ClipChannel(g), ClipChannel(b), 255)

ToUpperChar(ch) ==
  IF \E i \in 1..16 : HexLower[i] = ch
  THEN HexUpper[CHOOSE i \in 1..16 : HexLower[i] = ch]
  ELSE ch

toUpperCase(s) == [i \in 1..Len(s) |-> ToUpperChar(s[i])]

MaxChannel(c) == Max2(c[1], Max2(c[2], c[3]))
MinChannel(c) == Min2(c[1], Min2(c[2], c[3]))

\* Color.hsl() hue as the rational HueNum / HueDen degrees (HueDen = max - min);
\* chroma-js yields NaN for an achromatic colour, which callers turn into 0.
HueDen(c) == MaxChannel(c) - MinChannel(c)

HueNum(c) ==
  LET mx == MaxChannel(c)
      d == HueDen(c)
      raw == IF c[1] = mx THEN 60 * (c[2] - c[3])
             ELSE IF c[2] = mx THEN 120 * d + 60 * (c[3] - c[1])
             ELSE 240 * d + 60 * (c[1] - c[2])
  IN IF raw < 0 THEN raw + 360 * d ELSE raw

\* Color.hsl() saturation as the rational SatNum / SatDen (0 when achromatic).
SatNum(c) == MaxChannel(c) - MinChannel(c)

SatDen(c) ==
  LET sum == MaxChannel(c) + MinChannel(c)
  IN IF sum < 255 THEN sum ELSE 510 - sum

\* Color.hsl() lightness is (max + min) / 510.
LightSum(c) == MaxChannel(c) + MinChannel(c)

----------------------------------------------------------------------------
(* colorUtils: conversions and ColorInfo.                                  *)

rgbToHex(r, g, b) == chromaHex(chromaRgb(r, g, b))

\* hexToRgb with the channels destructured in the wrong order.
hexToRgbReversed(hex) ==
  LET c == chroma(hex) IN [ok |-> c.ok, rgb |-> <<c.rgb[3], c.rgb[2], c.rgb[1]>>]

\* hexToRgb: [ok, rgb]; chroma(hex) throws on a string it cannot parse.
hexToRgb(hex) == LET c == chroma(hex) IN [ok |-> c.ok, rgb |-> c.rgb]

\* rgbToHsl: hue in whole degrees (0 when undefined), s and l in whole percent.
rgbToHsl(r, g, b) ==
  LET c == chromaRgb(r, g, b).rgb
  IN [h |-> IF HueDen(c) = 0 THEN 0 ELSE RoundDiv(HueNum(c), HueDen(c)),
      s |-> IF HueDen(c) = 0 THEN 0 ELSE RoundDiv(100 * SatNum(c), SatDen(c)),
      l |-> RoundDiv(100 * LightSum(c), 510)]

\* The exact-match table of getColorName (names romanised).
colorNames ==
  { << <<"#","F","F","0","0","0","0">>, "Red" >>,
    << <<"#","0","0","F","F","0","0">>, "Green" >>,
    << <<"#","0","0","0","0","F","F">>, "Blue" >>,
    << <<"#","F","F","F","F","0","0">>, "Yellow" >>,
    << <<"#","F","F","0","0","F","F">>, "Magenta" >>,
    << <<"#","0","0","F","F","F","F">>, "Cyan" >>,
    << <<"#","0","0","0","0","0","0">>, "Black" >>,
    << <<"#","F","F","F","F","F","F">>, "White" >>,
    << <<"#","8","0","8","0","8","0">>, "Gray" >>,
    << <<"#","F","F","A","5","0","0">>, "Orange" >>,
    << <<"#","8","0","0","0","8","0">>, "Purple" >>,
    << <<"#","F","F","C","0","C","B">>, "Pink" >>,
    << <<"#","A","5","2","A","2","A">>, "Brown" >>,
    << <<"#","0","0","8","0","0","0">>, "DarkGreen" >>,
    << <<"#","0","0","0","0","8","0">>, "Navy" >> }

\* getColorName (simple version): exact match, then gray scale by lightness,
\* then dark / light, then the hue bands.  Labels are romanised.
getColorName(hex) ==
  LET up == toUpperCase(hex)
      c == chroma(hex).rgb
      d == HueDen(c)
      hn == IF d = 0 THEN 0 ELSE HueNum(c)
      hd == IF d = 0 THEN 1 ELSE d
      sum == LightSum(c)
  IN IF \E p \in colorNames : p[1] = up
     THEN (CHOOSE p \in colorNames : p[1] = up)[2]
     ELSE IF d = 0 \/ 10 * SatNum(c) < SatDen(c) THEN
       (IF sum < 102 THEN "DarkGray"
        ELSE IF sum < 255 THEN "Gray"
        ELSE IF sum < 408 THEN "LightGray"
        ELSE "White")
     ELSE IF 100 * sum < 15 * 510 THEN "Dark"
     ELSE IF 100 * sum > 85 * 510 THEN "Light"
     ELSE IF hn < 15 * hd \/ hn > 345 * hd THEN "RedKei"
     ELSE IF hn < 45 * hd THEN "OrangeKei"
     ELSE IF hn < 75 * hd THEN "YellowKei"
     ELSE IF hn < 150 * hd THEN "GreenKei"
     ELSE IF hn < 180 * hd THEN "CyanKei"
     ELSE IF hn < 250 * hd THEN "BlueKei"
     ELSE IF hn < 290 * hd THEN "PurpleKei"
     ELSE IF hn < 345 * hd THEN "PinkKei"
     ELSE "Custom"

\* createColorInfo: hex from the clipped channels, rgb the arguments as given.
createColorInfo(r, g, b, id) ==
  [hex |-> rgbToHex(r, g, b),
   rgb |-> <<r, g, b>>,
   hsl |-> rgbToHsl(r, g, b),
   name |-> <<getColorName(rgbToHex(r, g, b))>>,
   id |-> id]

----------------------------------------------------------------------------
(* Colour mixing.                                                          *)

\* floor(sqrt(n)) for n >= 0, by bisection between lo and hi (lo^2 <= n < hi^2).
RECURSIVE ISqrtBetween(_, _, _)
ISqrtBetween(n, lo, hi) ==
  IF hi - lo <= 1 THEN lo
  ELSE LET mid == (lo + hi) \div 2
       IN IF mid * mid <= n THEN ISqrtBetween(n, mid, hi)
          ELSE ISqrtBetween(n, lo, mid)

ISqrt(n) == ISqrtBetween(n, 0, 46341)

\* Math.round(Math.sqrt(n / d)) for n >= 0, d > 0:
\* floor(sqrt(n / d) + 1/2) = (floor(sqrt(4 * n / d)) + 1) div 2.
RoundSqrt(n, d) == (ISqrt((4 * n) \div d) + 1) \div 2

\* One channel of chroma.mix in its default 'lrgb' mode, f = num / den:
\* sqrt(x1^2 * (1 - f) + x2^2 * f), as rounded by hex() / rgb().
MixChannelSwapped(x1, x2, num, den) ==
  RoundSqrt(x1 * x1 * num + x2 * x2 * (den - num), den)

MixChannel(x1, x2, num, den) ==
  RoundSqrt(x1 * x1 * (den - num) + x2 * x2 * num, den)

\* chroma.mix(a, b, f) of two parsed colours, rounded; a colour that failed
\* to parse makes the call throw.
chromaMix(a, b, f) ==
  IF ~a.ok \/ ~b.ok THEN BadColor
  ELSE MkColor(MixChannel(a.rgb[1], b.rgb[1], f[1], f[2]),
               MixChannel(a.rgb[2], b.rgb[2], f[1], f[2]),
               MixChannel(a.rgb[3], b.rgb[3], f[1], f[2]),
               RoundDiv(a.a * (f[2] - f[1]) + b.a * f[1], f[2]))

NoColorInfo ==
  [hex |-> <<>>, rgb |-> <<0, 0, 0>>, hsl |-> [h |-> 0, s |-> 0, l |-> 0],
   name |-> <<>>, id |-> "", parentColors |-> <<>>, ratio |-> <<>>]

Returned(v) == [kind |-> "ok", value |-> v]
Thrown == [kind |-> "throw", value |-> NoColorInfo]
NotCalled == [kind |-> "none", value |-> NoColorInfo]

\* The ratio array mixColors records: [1 - ratio, ratio].
PairRatio(f) == << <<f[2] - f[1], f[2]>>, f >>

\* mixColors(color1, color2, ratio); newId is what generateColorId() draws.
mixColors(c1, c2, f, newId) ==
  LET mixed == chromaMix(chroma(c1.hex), chroma(c2.hex), f)
      info == createColorInfo(mixed.rgb[1], mixed.rgb[2], mixed.rgb[3], newId)
  IN IF ~mixed.ok THEN Thrown
     ELSE Returned([hex |-> info.hex, rgb |-> info.rgb, hsl |-> info.hsl,
                    id |-> info.id,
                    parentColors |-> <<c1.id, c2.id>>,
                    ratio |-> PairRatio(f),
                    name |-> c1.name \o <<" x ">> \o c2.name])

\* The guard of mixMultipleColors: fewer than 2 colours is an error.
TooFewColorsOffByOne(cs) == Len(cs) = 0

TooFewColors(cs) == Len(cs) < 2

\* The weight of colors[i] (0-based i) in the sequential loop: 1 / (i + 1).
StepWeightHalf(i) == <<1, 2>>

StepWeight(i) == <<1, i + 1>>

\* for (let i = 1; i < colors.length; i++)
\*   currentMix = chroma.mix(currentMix, colors[i].hex, 1 / (i + 1)).hex()
\* from (0-based) index i on; an unparsable hex makes chroma.mix throw,
\* which is reported as the empty string.
RECURSIVE MixLoop(_, _, _)
MixLoop(cs, i, currentMix) ==
  IF i >= Len(cs) THEN currentMix
  ELSE LET m == chromaMix(chroma(currentMix), chroma(cs[i + 1].hex), StepWeight(i))
       IN IF ~m.ok THEN <<>> ELSE MixLoop(cs, i + 1, chromaHex(m))

\* colors.map(c => c.name).join(' x ')
RECURSIVE JoinNames(_, _)
JoinNames(cs, k) ==
  IF k > Len(cs) THEN <<>>
  ELSE (IF k > 1 THEN <<" x ">> ELSE <<>>) \o cs[k].name \o JoinNames(cs, k + 1)

\* The uniform ratio array mixMultipleColors records: 1 / N for each parent.
EqualRatiosShort(cs) == [k \in 1..(Len(cs) - 1) |-> <<1, Len(cs)>>]

EqualRatios(cs) == [k \in 1..Len(cs) |-> <<1, Len(cs)>>]

DefaultRatio == <<1, 2>>

mixMultipleColors(cs, newId) ==
  IF TooFewColors(cs) THEN Thrown
  ELSE IF Len(cs) = 2 THEN mixColors(cs[1], cs[2], DefaultRatio, newId)
  ELSE LET currentMix == MixLoop(cs, 1, cs[1].hex)
           c == chroma(currentMix)
           info == createColorInfo(c.rgb[1], c.rgb[2], c.rgb[3], newId)
       IN IF ~c.ok THEN Thrown
          ELSE Returned([hex |-> info.hex, rgb |-> info.rgb, hsl |-> info.hsl,
                         id |-> info.id,
                         parentColors |-> [k \in 1..Len(cs) |-> cs[k].id],
                         ratio |-> EqualRatios(cs),
                         name |-> <<"mixed: ">> \o JoinNames(cs, 1)])

----------------------------------------------------------------------------
(* Inputs shared by the specifications.                                    *)

\* ColorInfo values as createColorInfo builds them.
Palette ==
  { createColorInfo(255, 0, 0, "c1"),
    createColorInfo(0, 0, 255, "c2"),
    createColorInfo(255, 165, 0, "c3"),
    createColorInfo(18, 52, 86, "c4") }

\* Every array of at most n palette colours.
ColorArrays(n) == UNION { [1..k -> Palette] : k \in 0..n }

\* Mixing ratios in [0, 1].
Ratios == { <<0, 1>>, <<1, 1>>, <<1, 2>>, <<1, 4>>, <<2, 3>> }

\* What generateColorId() may draw.
NewIds == { "color_x", "color_y" }

MixIdle ==
  /\ colors = <<>> /\ ratio = DefaultRatio /\ mixPc = "idle"
  /\ mixCall = "none" /\ mixOut = NotCalled

AnimIdle ==
  /\ animColors = <<>> /\ steps = 1 /\ animI = 0 /\ frames = <<>>
  /\ lastJitter = 0 /\ animPc = "idle"

DeIdle ==
  /\ color1 = <<>> /\ color2 = <<>> /\ dePc = "idle"
  /\ deCall = "none" /\ deOut = [kind |-> "none", value |-> 0]

NoLevel == [normal |-> FALSE, large |-> FALSE]

NoWcagOut ==
  [kind |-> "none", foreground |-> <<>>, background |-> <<>>, contrastRatio |-> 0,
   aaLevel |-> NoLevel, aaaLevel |-> NoLevel,
   suggestions |-> [lightVersion |-> <<>>, darkVersion |-> <<>>]]

UtilIdle ==
  utilCall = "idle" /\ utilArg = <<>> /\ utilOut = [kind |-> "none"]

\* JavaScript null where a colour object is expected.
null == NoColorInfo

\* The three mixing bowls of a mixer component.
Mixers == 1..3

MixerIdle ==
  /\ mixingColors = [m \in Mixers |-> <<>>]
  /\ mixedColor = [m \in Mixers |-> null]
  /\ isAnimating = FALSE /\ animatingMixer = 0
  /\ isAnimatingMixer = [m \in Mixers |-> FALSE]
  /\ processingRef = FALSE /\ lastMixedRef = <<>>
  /\ timers = <<>> /\ userEvents = 0

DisplayIdle ==
  /\ palette = <<>> /\ extractedColors = <<>> /\ selectedColor = null
  /\ isEyedropperMode = FALSE /\ sampled = 0

UiIdle == component = "none" /\ MixerIdle /\ DisplayIdle

BlindIdle ==
  /\ blindColors = <<>> /\ blindPc = "idle"
  /\ protanomaly = <<>> /\ deuteranomaly = <<>> /\ tritanomaly = <<>>
  /\ monochromacy = <<>>
  /\ variantIndex = 0 /\ pairI = 0 /\ pairJ = 0
  /\ issues = <<>> /\ compared = <<>> /\ blindOut = [kind |-> "none"]

WcagIdle ==
  /\ foreground = <<>> /\ background = <<>> /\ wcagPc = "idle"
  /\ roundedRatio = 0 /\ aaLevel = NoLevel /\ aaaLevel = NoLevel
  /\ lightVersion = <<>> /\ lightRatio = 0 /\ lightIterations = 0
  /\ darkVersion = <<>> /\ darkRatio = 0 /\ darkIterations = 0
  /\ wcagOut = NoWcagOut

----------------------------------------------------------------------------
(* SpecMix: mixColors and mixMultipleColors applied to bounded inputs.     *)

MixInit ==
  /\ colors \in ColorArrays(MaxColors)
  /\ ratio \in Ratios
  /\ mixPc = "ready" /\ mixCall = "none" /\ mixOut = NotCalled
  /\ AnimIdle /\ DeIdle /\ WcagIdle /\ BlindIdle /\ UtilIdle /\ UiIdle

CallMixColors ==
  /\ mixPc = "ready" /\ Len(colors) >= 2
  /\ \E newId \in NewIds : mixOut' = mixColors(colors[1], colors[2], ratio, newId)
  /\ mixCall' = "mixColors" /\ mixPc' = "done"
  /\ UNCHANGED <<colors, ratio, animVars, deVars, wcagVars, blindVars, utilVars, uiVars>>

CallMixMultipleColors ==
  /\ mixPc = "ready"
  /\ \E newId \in NewIds : mixOut' = mixMultipleColors(colors, newId)
  /\ mixCall' = "mixMultipleColors" /\ mixPc' = "done"
  /\ UNCHANGED <<colors, ratio, animVars, deVars, wcagVars, blindVars, utilVars, uiVars>>

MixNext == CallMixColors \/ CallMixMultipleColors

SpecMix == MixInit /\ [][MixNext]_vars

MixedBy(call) == mixPc = "done" /\ mixCall = call

\* C2: mixMultipleColors called with 0 or 1 colours throws and returns no
\* MixedColor.
C2_TooFewThrows ==
  (MixedBy("mixMultipleColors") /\ Len(colors) < 2) => mixOut = Thrown

C2_Witness ==
  MixedBy("mixMultipleColors") /\ Len(colors) = 1 /\ mixOut.kind = "throw"

\* The left-to-right reduction stated for mixMultipleColors, on parsed colours: start
\* from colour 1, then blend the accumulator with colour k at weight 1/k,
\* re-encoding to 8 bits per channel after every step.
RECURSIVE SequentialReduction(_, _)
SequentialReduction(cs, n) ==
  IF n = 1 THEN chroma(cs[1].hex)
  ELSE chromaMix(SequentialReduction(cs, n - 1), chroma(cs[n].hex), <<1, n>>)

\* C5: for N >= 2 colours mixMultipleColors returns the sequential reduction
\* (weight 1/i toward colour i), the N = 2 shortcut through mixColors included.
C5_SequentialReduction ==
  (MixedBy("mixMultipleColors") /\ Len(colors) >= 2) =>
     /\ mixOut.kind = "ok"
     /\ mixOut.value.hex = chromaHex(SequentialReduction(colors, Len(colors)))
     /\ mixOut.value.rgb = SequentialReduction(colors, Len(colors)).rgb

C5_Witness ==
  /\ MixedBy("mixMultipleColors") /\ Len(colors) = 3 /\ mixOut.kind = "ok"
  /\ colors[1] # colors[2] /\ colors[2] # colors[3] /\ colors[1] # colors[3]
  /\ mixOut.value.hex \notin { colors[k].hex : k \in 1..3 }

\* Sum of an array of rationals, as a rational.
RECURSIVE RatSum(_, _)
RatSum(rs, k) ==
  IF k > Len(rs) THEN <<0, 1>>
  ELSE LET rest == RatSum(rs, k + 1)
       IN <<rs[k][1] * rest[2] + rest[1] * rs[k][2], rs[k][2] * rest[2]>>

RatEq(a, b) == a[1] * b[2] = b[1] * a[2]

\* C6: the ratio array has the length of parentColors and sums to 1;
\* mixColors records [a.id, b.id] with [1 - r, r], mixMultipleColors the N
\* input ids in order with N entries of 1/N.
C6_RatioMatchesParents ==
  (mixPc = "done" /\ mixOut.kind = "ok") =>
     LET m == mixOut.value IN
       /\ Len(m.ratio) = Len(m.parentColors)
       /\ RatEq(RatSum(m.ratio, 1), <<1, 1>>)
       /\ mixCall = "mixColors" =>
            /\ m.parentColors = <<colors[1].id, colors[2].id>>
            /\ Len(m.ratio) = 2
            /\ RatEq(m.ratio[1], <<ratio[2] - ratio[1], ratio[2]>>)
            /\ RatEq(m.ratio[2], ratio)
       /\ mixCall = "mixMultipleColors" =>
            /\ Len(m.parentColors) = Len(colors)
            /\ \A k \in 1..Len(colors) :
                 /\ m.parentColors[k] = colors[k].id
                 /\ RatEq(m.ratio[k], <<1, Len(colors)>>)

C6_Witness ==
  /\ MixedBy("mixMultipleColors") /\ Len(colors) = 3 /\ mixOut.kind = "ok"
  /\ Len(mixOut.value.ratio) = 3 /\ mixOut.value.ratio[3] = <<1, 3>>

\* C7: mixColors(a, b, 0) has a's hex and rgb; mixColors(a, b, 1) has b's.
C7_MixIdentity ==
  MixedBy("mixColors") =>
     /\ ratio[1] = 0 =>
          /\ mixOut.kind = "ok"
          /\ mixOut.value.hex = colors[1].hex
          /\ mixOut.value.rgb = colors[1].rgb
     /\ ratio[1] = ratio[2] =>
          /\ mixOut.kind = "ok"
          /\ mixOut.value.hex = colors[2].hex
          /\ mixOut.value.rgb = colors[2].rgb

C7_Witness ==
  /\ MixedBy("mixColors") /\ ratio[1] = 0 /\ colors[1].hex # colors[2].hex
  /\ mixOut.value.hex = colors[1].hex

----------------------------------------------------------------------------
(* generateColorMixingAnimation and getMixedColorAtProgress.               *)

\* (Math.random() - 0.5) * 0.1 lies in [-0.05, 0.05); the model draws it in
\* hundredths.
Jitters == { -5, 0, 4 }

\* Math.max(0, Math.min(1, progress + jitter)) for progress = i / steps and
\* jitter = j / 100, as a rational over 100 * steps.
AdjustedProgress(i, st, j) ==
  << Max2(0, Min2(100 * st, 100 * i + j * st)), 100 * st >>

\* chroma.mix(hexA, hexB, f).hex(); the empty string stands for a throw.
MixHex(hexA, hexB, f) ==
  LET m == chromaMix(chroma(hexA), chroma(hexB), f)
  IN IF m.ok THEN chromaHex(m) ELSE <<>>

\* getMixedColorAtProgress(colors, progress), progress a rational <<p, q>>.
getMixedColorAtProgress(cs, progress) ==
  LET p == progress[1]
      q == progress[2]
      totalColors == Len(cs)
      stageIndex == (p * (totalColors - 1)) \div q
      stageRem == (p * (totalColors - 1)) % q     \* stageProgress = stageRem / q
      mixedSoFar == MixLoop(SubSeq(cs, 1, stageIndex + 1), 1, cs[1].hex)
  IN IF p <= 0 THEN cs[1].hex
     ELSE IF p >= q THEN MixLoop(cs, 1, cs[1].hex)
     ELSE IF stageIndex = 0 THEN MixHex(cs[1].hex, cs[2].hex, <<stageRem, q>>)
     ELSE IF stageIndex + 1 < totalColors
          THEN MixHex(mixedSoFar, cs[stageIndex + 2].hex,
                      <<stageRem, q * (stageIndex + 2)>>)
          ELSE mixedSoFar

\* The colour of one frame at the adjusted progress.
FrameColor(cs, adjusted) ==
  IF Len(cs) = 2 THEN MixHex(cs[1].hex, cs[2].hex, adjusted)
  ELSE getMixedColorAtProgress(cs, adjusted)

\* for (let i = 0; i <= steps; i++)
LoopContinuesExclusive(i, st) == i < st

LoopContinues(i, st) == i <= st

AnimPalette == { c \in Palette : c.id \in {"c1", "c2", "c3"} }

AnimInit ==
  /\ animColors \in UNION { [1..k -> AnimPalette] : k \in 0..MaxAnimColors }
  /\ steps \in 1..MaxSteps
  /\ animI = 0 /\ frames = <<>> /\ lastJitter = 0 /\ animPc = "ready"
  /\ MixIdle /\ DeIdle /\ WcagIdle /\ BlindIdle /\ UtilIdle /\ UiIdle

\* Entry: fewer than 2 colours returns one frame of progress 1 at once.
GenerateStart ==
  /\ animPc = "ready"
  /\ IF Len(animColors) < 2
     THEN /\ frames' = << [hex |-> IF Len(animColors) > 0 /\ animColors[1].hex # <<>>
                                   THEN animColors[1].hex
                                   ELSE <<"#","0","0","0","0","0","0">>,
                           progress |-> <<1, 1>>] >>
          /\ animPc' = "done"
     ELSE /\ frames' = <<>>
          /\ animPc' = "loop"
  /\ UNCHANGED <<animColors, steps, animI, lastJitter, mixVars, deVars, wcagVars, blindVars, utilVars, uiVars>>

\* One iteration of the frame loop, with the jitter Math.random() gives.
GenerateFrame ==
  /\ animPc = "loop" /\ LoopContinues(animI, steps)
  /\ \E j \in Jitters :
       /\ frames' = Append(frames,
            [hex |-> FrameColor(animColors, AdjustedProgress(animI, steps, j)),
             progress |-> <<animI, steps>>])
       /\ lastJitter' = j
  /\ animI' = animI + 1
  /\ UNCHANGED <<animColors, steps, animPc, mixVars, deVars, wcagVars, blindVars, utilVars, uiVars>>

GenerateReturn ==
  /\ animPc = "loop" /\ ~LoopContinues(animI, steps)
  /\ animPc' = "done"
  /\ UNCHANGED <<animColors, steps, animI, frames, lastJitter, mixVars, deVars, wcagVars, blindVars, utilVars, uiVars>>

AnimNext == GenerateStart \/ GenerateFrame \/ GenerateReturn

SpecAnim == AnimInit /\ [][AnimNext]_vars

FrameProgressIs(k) == RatEq(frames[k + 1].progress, <<k, steps>>)

C4_EndpointsExact ==
  (animPc = "done" /\ Len(animColors) >= 2) =>
     /\ frames[Len(frames)].hex = mixMultipleColors(animColors, "color_x").value.hex
     /\ frames[1].hex = animColors[1].hex

----------------------------------------------------------------------------
(* Delta E (advancedColorUtils).  A Delta E is an integer number of        *)
(* hundredths: Math.round(x * 100) / 100 is RoundDiv onto that grid.       *)

\* chroma.deltaE (CIEDE2000 on CIE Lab, clamped to [0, 100]) in units of
\* 1/10000 for the colours the model passes: <<rgb1, rgb2, deltaE>>.
DeltaETable ==
  { << <<255, 0, 0>>, <<255, 0, 0>>, 0 >>,
    << <<255, 0, 0>>, <<254, 0, 0>>, 2079 >>,
    << <<255, 0, 0>>, <<0, 0, 255>>, 528814 >>,
    << <<255, 0, 0>>, <<0, 0, 0>>, 504114 >>,
    << <<255, 0, 0>>, <<255, 255, 255>>, 458105 >>,
    << <<254, 0, 0>>, <<255, 0, 0>>, 2079 >>,
    << <<254, 0, 0>>, <<254, 0, 0>>, 0 >>,
    << <<254, 0, 0>>, <<0, 0, 255>>, 527822 >>,
    << <<254, 0, 0>>, <<0, 0, 0>>, 502379 >>,
    << <<254, 0, 0>>, <<255, 255, 255>>, 459280 >>,
    << <<0, 0, 255>>, <<255, 0, 0>>, 528814 >>,
    << <<0, 0, 255>>, <<254, 0, 0>>, 527822 >>,
    << <<0, 0, 255>>, <<0, 0, 255>>, 0 >>,
    << <<0, 0, 255>>, <<0, 0, 0>>, 396817 >>,
    << <<0, 0, 255>>, <<255, 255, 255>>, 642328 >>,
    << <<0, 0, 0>>, <<255, 0, 0>>, 504114 >>,
    << <<0, 0, 0>>, <<254, 0, 0>>, 502379 >>,
    << <<0, 0, 0>>, <<0, 0, 255>>, 396817 >>,
    << <<0, 0, 0>>, <<0, 0, 0>>, 0 >>,
    << <<0, 0, 0>>, <<255, 255, 255>>, 1000000 >>,
    << <<255, 255, 255>>, <<255, 0, 0>>, 458105 >>,
    << <<255, 255, 255>>, <<254, 0, 0>>, 459280 >>,
    << <<255, 255, 255>>, <<0, 0, 255>>, 642328 >>,
    << <<255, 255, 255>>, <<0, 0, 0>>, 1000000 >>,
    << <<255, 255, 255>>, <<255, 255, 255>>, 0 >>,
    << <<217, 127, 38>>, <<217, 127, 38>>, 0 >>,
    << <<217, 127, 38>>, <<216, 127, 38>>, 2373 >>,
    << <<217, 127, 38>>, <<128, 217, 38>>, 468761 >>,
    << <<217, 127, 38>>, <<0, 255, 0>>, 563170 >>,
    << <<217, 127, 38>>, <<0, 0, 255>>, 646034 >>,
    << <<217, 127, 38>>, <<128, 128, 128>>, 275884 >>,
    << <<217, 127, 38>>, <<255, 0, 255>>, 550305 >>,
    << <<216, 127, 38>>, <<217, 127, 38>>, 2373 >>,
    << <<216, 127, 38>>, <<216, 127, 38>>, 0 >>,
    << <<216, 127, 38>>, <<128, 217, 38>>, 466472 >>,
    << <<216, 127, 38>>, <<0, 255, 0>>, 560778 >>,
    << <<216, 127, 38>>, <<0, 0, 255>>, 646102 >>,
    << <<216, 127, 38>>, <<128, 128, 128>>, 275071 >>,
    << <<216, 127, 38>>, <<255, 0, 255>>, 551494 >>,
    << <<128, 217, 38>>, <<217, 127, 38>>, 468761 >>,
    << <<128, 217, 38>>, <<216, 127, 38>>, 466472 >>,
    << <<128, 217, 38>>, <<128, 217, 38>>, 0 >>,
    << <<128, 217, 38>>, <<0, 255, 0>>, 99160 >>,
    << <<128, 217, 38>>, <<0, 0, 255>>, 802510 >>,
    << <<128, 217, 38>>, <<128, 128, 128>>, 359506 >>,
    << <<128, 217, 38>>, <<255, 0, 255>>, 996932 >>,
    << <<0, 255, 0>>, <<217, 127, 38>>, 563170 >>,
    << <<0, 255, 0>>, <<216, 127, 38>>, 560778 >>,
    << <<0, 255, 0>>, <<128, 217, 38>>, 99160 >>,
    << <<0, 255, 0>>, <<0, 255, 0>>, 0 >>,
    << <<0, 255, 0>>, <<0, 0, 255>>, 831859 >>,
    << <<0, 255, 0>>, <<128, 128, 128>>, 416890 >>,
    << <<0, 255, 0>>, <<255, 0, 255>>, 1000000 >>,
    << <<0, 0, 255>>, <<217, 127, 38>>, 646034 >>,
    << <<0, 0, 255>>, <<216, 127, 38>>, 646102 >>,
    << <<0, 0, 255>>, <<128, 217, 38>>, 802510 >>,
    << <<0, 0, 255>>, <<0, 255, 0>>, 831859 >>,
    << <<0, 0, 255>>, <<128, 128, 128>>, 386632 >>,
    << <<0, 0, 255>>, <<255, 0, 255>>, 324213 >>,
    << <<128, 128, 128>>, <<217, 127, 38>>, 275884 >>,
    << <<128, 128, 128>>, <<216, 127, 38>>, 275071 >>,
    << <<128, 128, 128>>, <<128, 217, 38>>, 359506 >>,
    << <<128, 128, 128>>, <<0, 255, 0>>, 416890 >>,
    << <<128, 128, 128>>, <<0, 0, 255>>, 386632 >>,
    << <<128, 128, 128>>, <<128, 128, 128>>, 0 >>,
    << <<128, 128, 128>>, <<255, 0, 255>>, 326884 >>,
    << <<255, 0, 255>>, <<217, 127, 38>>, 550305 >>,
    << <<255, 0, 255>>, <<216, 127, 38>>, 551494 >>,
    << <<255, 0, 255>>, <<128, 217, 38>>, 996932 >>,
    << <<255, 0, 255>>, <<0, 255, 0>>, 1000000 >>,
    << <<255, 0, 255>>, <<0, 0, 255>>, 324213 >>,
    << <<255, 0, 255>>, <<128, 128, 128>>, 326884 >>,
    << <<255, 0, 255>>, <<255, 0, 255>>, 0 >>,
    << <<255, 0, 0>>, <<204, 153, 51>>, 346356 >>,
    << <<255, 0, 0>>, <<102, 204, 51>>, 748864 >>,
    << <<255, 0, 0>>, <<128, 128, 128>>, 311966 >>,
    << <<255, 0, 0>>, <<255, 0, 255>>, 425857 >>,
    << <<254, 0, 0>>, <<204, 153, 51>>, 346694 >>,
    << <<254, 0, 0>>, <<102, 204, 51>>, 748769 >>,
    << <<254, 0, 0>>, <<128, 128, 128>>, 311718 >>,
    << <<254, 0, 0>>, <<255, 0, 255>>, 425970 >>,
    << <<204, 153, 51>>, <<255, 0, 0>>, 346356 >>,
    << <<204, 153, 51>>, <<254, 0, 0>>, 346694 >>,
    << <<204, 153, 51>>, <<204, 153, 51>>, 0 >>,
    << <<204, 153, 51>>, <<102, 204, 51>>, 331218 >>,
    << <<204, 153, 51>>, <<0, 0, 255>>, 739256 >>,
    << <<204, 153, 51>>, <<128, 128, 128>>, 277168 >>,
    << <<204, 153, 51>>, <<255, 0, 255>>, 648040 >>,
    << <<102, 204, 51>>, <<255, 0, 0>>, 748864 >>,
    << <<102, 204, 51>>, <<254, 0, 0>>, 748769 >>,
    << <<102, 204, 51>>, <<204, 153, 51>>, 331218 >>,
    << <<102, 204, 51>>, <<102, 204, 51>>, 0 >>,
    << <<102, 204, 51>>, <<0, 0, 255>>, 764272 >>,
    << <<102, 204, 51>>, <<128, 128, 128>>, 335743 >>,
    << <<102, 204, 51>>, <<255, 0, 255>>, 991634 >>,
    << <<0, 0, 255>>, <<204, 153, 51>>, 739256 >>,
    << <<0, 0, 255>>, <<102, 204, 51>>, 764272 >>,
    << <<128, 128, 128>>, <<255, 0, 0>>, 311966 >>,
    << <<128, 128, 128>>, <<254, 0, 0>>, 311718 >>,
    << <<128, 128, 128>>, <<204, 153, 51>>, 277168 >>,
    << <<128, 128, 128>>, <<102, 204, 51>>, 335743 >>,
    << <<255, 0, 255>>, <<255, 0, 0>>, 425857 >>,
    << <<255, 0, 255>>, <<254, 0, 0>>, 425970 >>,
    << <<255, 0, 255>>, <<204, 153, 51>>, 648040 >>,
    << <<255, 0, 255>>, <<102, 204, 51>>, 991634 >>,
    << <<255, 0, 0>>, <<255, 255, 0>>, 643009 >>,
    << <<255, 0, 0>>, <<0, 255, 0>>, 866082 >>,
    << <<255, 0, 0>>, <<230, 25, 229>>, 413675 >>,
    << <<255, 0, 0>>, <<230, 25, 25>>, 54634 >>,
    << <<254, 0, 0>>, <<255, 255, 0>>, 643560 >>,
    << <<254, 0, 0>>, <<0, 255, 0>>, 866066 >>,
    << <<254, 0, 0>>, <<230, 25, 229>>, 413565 >>,
    << <<254, 0, 0>>, <<230, 25, 25>>, 52810 >>,
    << <<255, 255, 0>>, <<255, 0, 0>>, 643009 >>,
    << <<255, 255, 0>>, <<254, 0, 0>>, 643560 >>,
    << <<255, 255, 0>>, <<255, 255, 0>>, 0 >>,
    << <<255, 255, 0>>, <<0, 255, 0>>, 234042 >>,
    << <<255, 255, 0>>, <<230, 25, 229>>, 921983 >>,
    << <<255, 255, 0>>, <<128, 128, 128>>, 439585 >>,
    << <<255, 255, 0>>, <<230, 25, 25>>, 661608 >>,
    << <<0, 255, 0>>, <<255, 0, 0>>, 866082 >>,
    << <<0, 255, 0>>, <<254, 0, 0>>, 866066 >>,
    << <<0, 255, 0>>, <<255, 255, 0>>, 234042 >>,
    << <<0, 255, 0>>, <<230, 25, 229>>, 1000000 >>,
    << <<0, 255, 0>>, <<230, 25, 25>>, 869320 >>,
    << <<230, 25, 229>>, <<255, 0, 0>>, 413675 >>,
    << <<230, 25, 229>>, <<254, 0, 0>>, 413565 >>,
    << <<230, 25, 229>>, <<255, 255, 0>>, 921983 >>,
    << <<230, 25, 229>>, <<0, 255, 0>>, 1000000 >>,
    << <<230, 25, 229>>, <<230, 25, 229>>, 0 >>,
    << <<230, 25, 229>>, <<128, 128, 128>>, 311899 >>,
    << <<230, 25, 229>>, <<230, 25, 25>>, 389977 >>,
    << <<128, 128, 128>>, <<255, 255, 0>>, 439585 >>,
    << <<128, 128, 128>>, <<230, 25, 229>>, 311899 >>,
    << <<128, 128, 128>>, <<230, 25, 25>>, 301538 >>,
    << <<230, 25, 25>>, <<255, 0, 0>>, 54634 >>,
    << <<230, 25, 25>>, <<254, 0, 0>>, 52810 >>,
    << <<230, 25, 25>>, <<255, 255, 0>>, 661608 >>,
    << <<230, 25, 25>>, <<0, 255, 0>>, 869320 >>,
    << <<230, 25, 25>>, <<230, 25, 229>>, 389977 >>,
    << <<230, 25, 25>>, <<128, 128, 128>>, 301538 >>,
    << <<230, 25, 25>>, <<230, 25, 25>>, 0 >>,
    << <<54, 54, 54>>, <<54, 54, 54>>, 0 >>,
    << <<54, 54, 54>>, <<237, 237, 237>>, 642175 >>,
    << <<54, 54, 54>>, <<182, 182, 182>>, 509865 >>,
    << <<54, 54, 54>>, <<18, 18, 18>>, 111715 >>,
    << <<54, 54, 54>>, <<55, 55, 55>>, 3235 >>,
    << <<54, 54, 54>>, <<73, 73, 73>>, 62703 >>,
    << <<237, 237, 237>>, <<54, 54, 54>>, 642175 >>,
    << <<237, 237, 237>>, <<237, 237, 237>>, 0 >>,
    << <<237, 237, 237>>, <<182, 182, 182>>, 130978 >>,
    << <<237, 237, 237>>, <<18, 18, 18>>, 882386 >>,
    << <<237, 237, 237>>, <<55, 55, 55>>, 635975 >>,
    << <<237, 237, 237>>, <<73, 73, 73>>, 533911 >>,
    << <<182, 182, 182>>, <<54, 54, 54>>, 509865 >>,
    << <<182, 182, 182>>, <<237, 237, 237>>, 130978 >>,
    << <<182, 182, 182>>, <<182, 182, 182>>, 0 >>,
    << <<182, 182, 182>>, <<18, 18, 18>>, 601177 >>,
    << <<182, 182, 182>>, <<55, 55, 55>>, 506430 >>,
    << <<182, 182, 182>>, <<73, 73, 73>>, 422288 >>,
    << <<18, 18, 18>>, <<54, 54, 54>>, 111715 >>,
    << <<18, 18, 18>>, <<237, 237, 237>>, 882386 >>,
    << <<18, 18, 18>>, <<182, 182, 182>>, 601177 >>,
    << <<18, 18, 18>>, <<18, 18, 18>>, 0 >>,
    << <<18, 18, 18>>, <<55, 55, 55>>, 114925 >>,
    << <<18, 18, 18>>, <<73, 73, 73>>, 173695 >>,
    << <<55, 55, 55>>, <<54, 54, 54>>, 3235 >>,
    << <<55, 55, 55>>, <<237, 237, 237>>, 635975 >>,
    << <<55, 55, 55>>, <<182, 182, 182>>, 506430 >>,
    << <<55, 55, 55>>, <<18, 18, 18>>, 114925 >>,
    << <<55, 55, 55>>, <<55, 55, 55>>, 0 >>,
    << <<55, 55, 55>>, <<73, 73, 73>>, 59475 >>,
    << <<73, 73, 73>>, <<54, 54, 54>>, 62703 >>,
    << <<73, 73, 73>>, <<237, 237, 237>>, 533911 >>,
    << <<73, 73, 73>>, <<182, 182, 182>>, 422288 >>,
    << <<73, 73, 73>>, <<18, 18, 18>>, 173695 >>,
    << <<73, 73, 73>>, <<55, 55, 55>>, 59475 >>,
    << <<73, 73, 73>>, <<73, 73, 73>>, 0 >>,
    << <<217, 127, 38>>, <<38, 217, 128>>, 520154 >>,
    << <<217, 127, 38>>, <<127, 38, 217>>, 594552 >>,
    << <<217, 127, 38>>, <<217, 38, 128>>, 437182 >>,
    << <<216, 127, 38>>, <<38, 217, 128>>, 517928 >>,
    << <<216, 127, 38>>, <<127, 38, 217>>, 594936 >>,
    << <<216, 127, 38>>, <<217, 38, 128>>, 438075 >>,
    << <<128, 217, 38>>, <<38, 217, 128>>, 142862 >>,
    << <<128, 217, 38>>, <<127, 38, 217>>, 1000000 >>,
    << <<128, 217, 38>>, <<217, 38, 128>>, 872305 >>,
    << <<38, 217, 128>>, <<217, 127, 38>>, 520154 >>,
    << <<38, 217, 128>>, <<216, 127, 38>>, 517928 >>,
    << <<38, 217, 128>>, <<128, 217, 38>>, 142862 >>,
    << <<38, 217, 128>>, <<38, 217, 128>>, 0 >>,
    << <<38, 217, 128>>, <<127, 38, 217>>, 645530 >>,
    << <<38, 217, 128>>, <<128, 128, 128>>, 334603 >>,
    << <<38, 217, 128>>, <<217, 38, 128>>, 891130 >>,
    << <<127, 38, 217>>, <<217, 127, 38>>, 594552 >>,
    << <<127, 38, 217>>, <<216, 127, 38>>, 594936 >>,
    << <<127, 38, 217>>, <<128, 217, 38>>, 1000000 >>,
    << <<127, 38, 217>>, <<38, 217, 128>>, 645530 >>,
    << <<127, 38, 217>>, <<127, 38, 217>>, 0 >>,
    << <<127, 38, 217>>, <<128, 128, 128>>, 337456 >>,
    << <<127, 38, 217>>, <<217, 38, 128>>, 253296 >>,
    << <<128, 128, 128>>, <<38, 217, 128>>, 334603 >>,
    << <<128, 128, 128>>, <<127, 38, 217>>, 337456 >>,
    << <<128, 128, 128>>, <<217, 38, 128>>, 279732 >>,
    << <<217, 38, 128>>, <<217, 127, 38>>, 437182 >>,
    << <<217, 38, 128>>, <<216, 127, 38>>, 438075 >>,
    << <<217, 38, 128>>, <<128, 217, 38>>, 872305 >>,
    << <<217, 38, 128>>, <<38, 217, 128>>, 891130 >>,
    << <<217, 38, 128>>, <<127, 38, 217>>, 253296 >>,
    << <<217, 38, 128>>, <<128, 128, 128>>, 279732 >>,
    << <<217, 38, 128>>, <<217, 38, 128>>, 0 >> }

\* chroma.deltaE(a, b) on parsed colours, in units of 1/10000.
chromaDeltaE(a, b) ==
  (CHOOSE t \in DeltaETable : t[1] = a.rgb /\ t[2] = b.rgb)[3]

DeReturned(v) == [kind |-> "ok", value |-> v]
DeThrown == [kind |-> "throw", value |-> 0]

\* The penalty value 100, in hundredths.
SentinelDeltaE == 10000

\* Sum of squared channel differences of two RGB triples.
SquaredDistance(x, y) ==
  (x[1] - y[1]) * (x[1] - y[1]) + (x[2] - y[2]) * (x[2] - y[2])
    + (x[3] - y[3]) * (x[3] - y[3])

\* Math.round(simpleDiff * 100) in hundredths, where
\*   simpleDiff = sqrt(S) / sqrt(3 * 255 * 255) * 100 * sqrt(c / 1600):
\* floor(4 * 10^8 * (c / 1600) * S / 195075) = floor(c * 10^4 * S / 7803) is
\* taken in two division steps to stay within 32 bits.
SimpleDiff(S, c) ==
  LET q0 == (S * c) \div 7803
      r0 == (S * c) % 7803
      q == q0 * 10000 + (r0 * 10000) \div 7803
  IN (ISqrt(q) + 1) \div 2

\* The inner try of the catch block: the RGB distance, scaled by c / 1600
\* under the square root (1600 for factor 1, 1444 for factor 0.95); chroma()
\* throwing there is caught and gives 100.
DeltaEFallbackUnguarded(c1, c2, c) ==
  LET a == chroma(c1)
      b == chroma(c2)
  IN IF ~a.ok \/ ~b.ok THEN DeThrown
     ELSE DeReturned(SimpleDiff(SquaredDistance(a.rgb, b.rgb), c))

DeltaEFallback(c1, c2, c) ==
  LET a == chroma(c1)
      b == chroma(c2)
  IN IF ~a.ok \/ ~b.ok THEN DeReturned(SentinelDeltaE)
     ELSE DeReturned(SimpleDiff(SquaredDistance(a.rgb, b.rgb), c))

\* The try block of calculateDeltaE2000 (pct = 100) and calculateDeltaE94
\* (pct = 95): chroma(color) throws on an unparsable argument; the result is
\* Math.round(deltaE * pct / 100 * 100) / 100.  chroma.deltaE is finite for
\* every pair of colours, so the isFinite guard never fires.
DeltaETry(c1, c2, pct) ==
  LET a == chroma(c1)
      b == chroma(c2)
  IN IF ~a.ok \/ ~b.ok THEN DeThrown
     ELSE IF ~chromaValid(c1) \/ ~chromaValid(c2) THEN DeReturned(SentinelDeltaE)
     ELSE DeReturned(RoundDiv(pct * chromaDeltaE(a, b), 10000))

calculateDeltaE2000(c1, c2) ==
  LET t == DeltaETry(c1, c2, 100)
  IN IF t.kind = "throw" THEN DeltaEFallback(c1, c2, 1600) ELSE t

\* calculateDeltaE94 with the correction dividing by 0.95 (about * 1.05).
calculateDeltaE94Divided(c1, c2) ==
  LET t == DeltaETry(c1, c2, 105)
  IN IF t.kind = "throw" THEN DeltaEFallback(c1, c2, 1444) ELSE t

calculateDeltaE94(c1, c2) ==
  LET t == DeltaETry(c1, c2, 95)
  IN IF t.kind = "throw" THEN DeltaEFallback(c1, c2, 1444) ELSE t

\* Colour strings handed to the Delta E functions: parsable ones in several
\* notations, and malformed ones.
DeltaEInputs ==
  { <<"#","f","f","0","0","0","0">>, <<"#","f","e","0","0","0","0">>,
    <<"#","0","0","0","0","F","F">>, <<"#","0","0","0">>,
    <<"#","f","f","f","f","f","f">>, <<"r","e","d">>,
    <<"#","1","2">>, <<"#","g","g","g","g","g","g">>, <<>> }

DeInit ==
  /\ color1 \in DeltaEInputs /\ color2 \in DeltaEInputs
  /\ dePc = "ready" /\ deCall = "none" /\ deOut = [kind |-> "none", value |-> 0]
  /\ MixIdle /\ AnimIdle /\ WcagIdle /\ BlindIdle /\ UtilIdle /\ UiIdle

CallDeltaE2000 ==
  /\ dePc = "ready"
  /\ deOut' = calculateDeltaE2000(color1, color2)
  /\ deCall' = "calculateDeltaE2000" /\ dePc' = "done"
  /\ UNCHANGED <<color1, color2, mixVars, animVars, wcagVars, blindVars, utilVars, uiVars>>

CallDeltaE94 ==
  /\ dePc = "ready"
  /\ deOut' = calculateDeltaE94(color1, color2)
  /\ deCall' = "calculateDeltaE94" /\ dePc' = "done"
  /\ UNCHANGED <<color1, color2, mixVars, animVars, wcagVars, blindVars, utilVars, uiVars>>

DeNext == CallDeltaE2000 \/ CallDeltaE94

SpecDeltaE == DeInit /\ [][DeNext]_vars

\* C8: calculateDeltaE2000 and calculateDeltaE94 never throw, and return
\* exactly 100 whenever the first, the second or both arguments cannot be
\* parsed.
C8_MalformedGivesSentinel ==
  dePc = "done" =>
     /\ deOut.kind = "ok"
     /\ (~chromaValid(color1) \/ ~chromaValid(color2)) => deOut.value = 10000

C8_Witness ==
  /\ dePc = "done" /\ deCall = "calculateDeltaE94"
  /\ chromaValid(color1) /\ ~chromaValid(color2)
  /\ deOut = DeReturned(10000)

\* C11: for every pair of arguments, parsable or not, calculateDeltaE94
\* returns at most what calculateDeltaE2000 returns: 0.95 times the base
\* metric rounded to two decimals on the normal path, 100 against 100 on
\* the sentinel path, and the RGB distance scaled by 0.95 against the
\* unscaled one in the fallback arithmetic.
C11_StricterNeverExceeds ==
  (dePc = "done" /\ deCall = "calculateDeltaE94") =>
     /\ deOut.kind = "ok"
     /\ calculateDeltaE2000(color1, color2).kind = "ok"
     /\ deOut.value <= calculateDeltaE2000(color1, color2).value
     /\ (chromaValid(color1) /\ chromaValid(color2)) =>
          /\ deOut.value = RoundDiv(95 * chromaDeltaE(chroma(color1), chroma(color2)), 10000)
          /\ SimpleDiff(SquaredDistance(chroma(color1).rgb, chroma(color2).rgb), 1444)
               <= SimpleDiff(SquaredDistance(chroma(color1).rgb, chroma(color2).rgb), 1600)
     /\ (~chromaValid(color1) \/ ~chromaValid(color2)) =>
          /\ deOut.value = 10000
          /\ calculateDeltaE2000(color1, color2).value = 10000

C11_Witness ==
  /\ dePc = "done" /\ deCall = "calculateDeltaE94"
  /\ chromaValid(color1) /\ chromaValid(color2)
  /\ deOut.value > 0
  /\ deOut.value < calculateDeltaE2000(color1, color2).value

----------------------------------------------------------------------------
(* chroma-js: luminance, contrast, brighten and darken.                    *)

\* Color.luminance() linearises a channel x as
\*   (x / 255 <= 0.03928) ? x / 255 / 12.92 : ((x / 255 + 0.055) / 1.055) ^ 2.4.
\* LuminanceX[x + 1] is that value in millionths, for x = 0..255.
LuminanceX ==
  << 0, 304, 607, 911, 1214, 1518, 1821, 2125,
     2428, 2732, 3035, 3347, 3677, 4025, 4391, 4777,
     5182, 5605, 6049, 6512, 6995, 7499, 8023, 8568,
     9134, 9721, 10330, 10960, 11612, 12286, 12983, 13702,
     14444, 15209, 15996, 16807, 17642, 18500, 19382, 20289,
     21219, 22174, 23153, 24158, 25187, 26241, 27321, 28426,
     29557, 30713, 31896, 33105, 34340, 35601, 36889, 38204,
     39546, 40915, 42311, 43735, 45186, 46665, 48172, 49707,
     51269, 52861, 54480, 56128, 57805, 59511, 61246, 63010,
     64803, 66626, 68478, 70360, 72272, 74214, 76185, 78187,
     80220, 82283, 84376, 86500, 88656, 90842, 93059, 95307,
     97587, 99899, 102242, 104616, 107023, 109462, 111932, 114435,
     116971, 119538, 122139, 124772, 127438, 130136, 132868, 135633,
     138432, 141263, 144128, 147027, 149960, 152926, 155926, 158961,
     162029, 165132, 168269, 171441, 174647, 177888, 181164, 184475,
     187821, 191202, 194618, 198069, 201556, 205079, 208637, 212231,
     215861, 219526, 223228, 226966, 230740, 234551, 238398, 242281,
     246201, 250158, 254152, 258183, 262251, 266356, 270498, 274677,
     278894, 283149, 287441, 291771, 296138, 300544, 304987, 309469,
     313989, 318547, 323143, 327778, 332452, 337164, 341914, 346704,
     351533, 356400, 361307, 366253, 371238, 376262, 381326, 386429,
     391572, 396755, 401978, 407240, 412543, 417885, 423268, 428690,
     434154, 439657, 445201, 450786, 456411, 462077, 467784, 473531,
     479320, 485150, 491021, 496933, 502886, 508881, 514918, 520996,
     527115, 533276, 539479, 545724, 552011, 558340, 564712, 571125,
     577580, 584078, 590619, 597202, 603827, 610496, 617207, 623960,
     630757, 637597, 644480, 651406, 658375, 665387, 672443, 679542,
     686685, 693872, 701102, 708376, 715694, 723055, 730461, 737910,
     745404, 752942, 760525, 768151, 775822, 783538, 791298, 799103,
     806952, 814847, 822786, 830770, 838799, 846873, 854993, 863157,
     871367, 879622, 887923, 896269, 904661, 913099, 921582, 930111,
     938686, 947307, 955973, 964686, 973445, 982251, 991102, 1000000 >>

\* Color.luminance() = 0.2126 * R + 0.7152 * G + 0.0722 * B in millionths;
\* the weighted sum is formed on quotient and remainder by 10000 to stay
\* within 32 bits.
chromaLuminance(c) ==
  LET r == LuminanceX[c[1] + 1]
      g == LuminanceX[c[2] + 1]
      b == LuminanceX[c[3] + 1]
  IN 2126 * (r \div 10000) + 7152 * (g \div 10000) + 722 * (b \div 10000)
       + RoundDiv(2126 * (r % 10000) + 7152 * (g % 10000) + 722 * (b % 10000), 10000)

\* The numerator taken from the first colour whichever is the lighter.
ContrastNumFirst(a, b) == chromaLuminance(a.rgb) + 50000

\* The denominator with an offset of 0.025 instead of 0.05.
ContrastDenHalfOffset(a, b) ==
  Min2(chromaLuminance(a.rgb), chromaLuminance(b.rgb)) + 25000

\* chroma.contrast(a, b) = (L1 + 0.05) / (L2 + 0.05) with L1 the larger
\* luminance, as numerator and denominator in millionths.
ContrastNum(a, b) == Max2(chromaLuminance(a.rgb), chromaLuminance(b.rgb)) + 50000
ContrastDen(a, b) == Min2(chromaLuminance(a.rgb), chromaLuminance(b.rgb)) + 50000

\* chroma.contrast(a, b) in units of 1/10000, truncated.
chromaContrast(a, b) ==
  LET n == 100 * ContrastNum(a, b)
      d == ContrastDen(a, b)
  IN 100 * (n \div d) + (100 * (n % d)) \div d

\* Color.brighten(0.3) and Color.darken(0.3) move CIE Lab lightness by
\* 18 * 0.3 = 5.4 and convert back to clipped sRGB; hex() rounds.  A gray
\* stays gray: BrightenGray[x + 1] and DarkenGray[x + 1] give the new level
\* of gray level x.
BrightenGray ==
  << 18, 19, 19, 20, 20, 21, 22, 22, 23, 23, 24, 24, 25, 26, 26, 27,
     28, 28, 29, 30, 31, 32, 33, 34, 35, 36, 37, 38, 39, 40, 41, 42,
     43, 44, 45, 46, 47, 48, 50, 51, 52, 53, 54, 55, 56, 57, 58, 59,
     60, 61, 62, 63, 64, 65, 66, 67, 68, 69, 70, 71, 72, 73, 74, 75,
     76, 77, 78, 79, 81, 82, 83, 84, 85, 86, 87, 88, 89, 90, 91, 92,
     93, 94, 95, 96, 97, 98, 99, 100, 101, 102, 103, 104, 105, 106, 107, 108,
     109, 110, 111, 112, 113, 114, 115, 116, 117, 118, 119, 120, 122, 123, 124, 125,
     126, 127, 128, 129, 130, 131, 132, 133, 134, 135, 136, 137, 138, 139, 140, 141,
     142, 143, 144, 145, 146, 147, 148, 149, 150, 151, 152, 153, 154, 155, 156, 157,
     158, 159, 160, 161, 162, 163, 164, 165, 166, 167, 168, 169, 170, 171, 172, 173,
     174, 175, 176, 178, 179, 180, 181, 182, 183, 184, 185, 186, 187, 188, 189, 190,
     191, 192, 193, 194, 195, 196, 197, 198, 199, 200, 201, 202, 203, 204, 205, 206,
     207, 208, 209, 210, 211, 212, 213, 214, 215, 216, 217, 218, 219, 220, 221, 222,
     223, 224, 225, 226, 227, 228, 229, 230, 231, 232, 233, 234, 235, 236, 237, 238,
     239, 240, 241, 242, 243, 244, 245, 246, 247, 248, 249, 251, 252, 253, 254, 255,
     255, 255, 255, 255, 255, 255, 255, 255, 255, 255, 255, 255, 255, 255, 255, 255 >>

DarkenGray ==
  << 0, 0, 0, 0, 0, 0, 0, 0, 0, 0, 0, 0, 0, 0, 0, 0,
     0, 0, 0, 2, 3, 5, 7, 9, 10, 12, 14, 15, 16, 18, 19, 20,
     21, 22, 23, 24, 25, 26, 27, 28, 29, 30, 31, 32, 33, 34, 35, 36,
     37, 38, 38, 39, 40, 41, 42, 43, 44, 45, 46, 47, 48, 49, 50, 51,
     52, 53, 54, 55, 56, 57, 58, 59, 60, 61, 62, 63, 64, 65, 66, 67,
     67, 68, 69, 70, 71, 72, 73, 74, 75, 76, 77, 78, 79, 80, 81, 82,
     83, 84, 85, 86, 87, 88, 89, 90, 91, 92, 93, 94, 95, 96, 97, 98,
     99, 100, 101, 102, 103, 104, 105, 106, 107, 108, 108, 109, 110, 111, 112, 113,
     114, 115, 116, 117, 118, 119, 120, 121, 122, 123, 124, 125, 126, 127, 128, 129,
     130, 131, 132, 133, 134, 135, 136, 137, 138, 139, 140, 141, 142, 143, 144, 145,
     146, 147, 148, 149, 150, 151, 152, 153, 154, 155, 156, 157, 158, 159, 160, 161,
     162, 162, 163, 164, 165, 166, 167, 168, 169, 170, 171, 172, 173, 174, 175, 176,
     177, 178, 179, 180, 181, 182, 183, 184, 185, 186, 187, 188, 189, 190, 191, 192,
     193, 194, 195, 196, 197, 198, 199, 200, 201, 202, 203, 204, 205, 206, 207, 208,
     209, 210, 211, 212, 213, 214, 215, 216, 217, 218, 219, 220, 221, 222, 223, 224,
     225, 226, 227, 228, 229, 230, 231, 232, 233, 234, 234, 235, 236, 237, 238, 239 >>

\* The same two maps on the chromatic colours the suggestion search visits
\* from the model's inputs: <<rgb, rgb after the step>>.
BrightenChromatic ==
  << << <<0, 0, 255>>, <<56, 27, 255>> >>,
     << <<56, 27, 255>>, <<82, 44, 255>> >>,
     << <<82, 44, 255>>, <<103, 59, 255>> >>,
     << <<103, 59, 255>>, <<121, 73, 255>> >>,
     << <<121, 73, 255>>, <<138, 87, 255>> >>,
     << <<138, 87, 255>>, <<154, 101, 255>> >>,
     << <<154, 101, 255>>, <<170, 115, 255>> >>,
     << <<170, 115, 255>>, <<186, 129, 255>> >>,
     << <<186, 129, 255>>, <<202, 143, 255>> >>,
     << <<202, 143, 255>>, <<218, 158, 255>> >>,
     << <<218, 158, 255>>, <<234, 173, 255>> >>,
     << <<234, 173, 255>>, <<250, 188, 255>> >>,
     << <<250, 188, 255>>, <<255, 203, 255>> >>,
     << <<255, 203, 255>>, <<255, 218, 255>> >>,
     << <<255, 218, 255>>, <<255, 233, 255>> >>,
     << <<255, 233, 255>>, <<255, 248, 255>> >>,
     << <<255, 248, 255>>, <<255, 255, 255>> >>,
     << <<255, 255, 0>>, <<255, 255, 42>> >>,
     << <<255, 255, 42>>, <<255, 255, 63>> >>,
     << <<255, 255, 63>>, <<255, 255, 81>> >>,
     << <<255, 255, 81>>, <<255, 255, 97>> >>,
     << <<255, 255, 97>>, <<255, 255, 112>> >>,
     << <<255, 255, 112>>, <<255, 255, 127>> >>,
     << <<255, 255, 127>>, <<255, 255, 142>> >>,
     << <<255, 255, 142>>, <<255, 255, 157>> >>,
     << <<255, 255, 157>>, <<255, 255, 172>> >>,
     << <<255, 255, 172>>, <<255, 255, 187>> >>,
     << <<255, 255, 187>>, <<255, 255, 202>> >>,
     << <<255, 255, 202>>, <<255, 255, 217>> >>,
     << <<255, 255, 217>>, <<255, 255, 232>> >>,
     << <<255, 255, 232>>, <<255, 255, 247>> >>,
     << <<255, 255, 247>>, <<255, 255, 255>> >>,
     << <<255, 0, 0>>, <<255, 42, 19>> >>,
     << <<255, 42, 19>>, <<255, 63, 34>> >>,
     << <<255, 63, 34>>, <<255, 81, 48>> >>,
     << <<255, 81, 48>>, <<255, 97, 61>> >>,
     << <<255, 97, 61>>, <<255, 112, 74>> >>,
     << <<255, 112, 74>>, <<255, 127, 87>> >>,
     << <<255, 127, 87>>, <<255, 142, 100>> >>,
     << <<255, 142, 100>>, <<255, 157, 114>> >>,
     << <<255, 157, 114>>, <<255, 172, 128>> >>,
     << <<255, 172, 128>>, <<255, 187, 142>> >>,
     << <<255, 187, 142>>, <<255, 202, 156>> >>,
     << <<255, 202, 156>>, <<255, 217, 171>> >>,
     << <<255, 217, 171>>, <<255, 232, 186>> >>,
     << <<255, 232, 186>>, <<255, 247, 201>> >>,
     << <<255, 247, 201>>, <<255, 255, 216>> >>,
     << <<255, 255, 216>>, <<255, 255, 231>> >>,
     << <<255, 255, 231>>, <<255, 255, 246>> >>,
     << <<255, 255, 246>>, <<255, 255, 255>> >> >>

DarkenChromatic ==
  << << <<0, 0, 255>>, <<0, 0, 239>> >>,
     << <<0, 0, 239>>, <<0, 0, 223>> >>,
     << <<0, 0, 223>>, <<0, 0, 207>> >>,
     << <<0, 0, 207>>, <<0, 0, 192>> >>,
     << <<0, 0, 192>>, <<0, 0, 177>> >>,
     << <<0, 0, 177>>, <<0, 0, 162>> >>,
     << <<0, 0, 162>>, <<0, 0, 147>> >>,
     << <<0, 0, 147>>, <<0, 0, 133>> >>,
     << <<0, 0, 133>>, <<0, 0, 119>> >>,
     << <<0, 0, 119>>, <<0, 0, 105>> >>,
     << <<0, 0, 105>>, <<0, 0, 91>> >>,
     << <<0, 0, 91>>, <<0, 0, 78>> >>,
     << <<0, 0, 78>>, <<0, 0, 65>> >>,
     << <<0, 0, 65>>, <<0, 0, 53>> >>,
     << <<0, 0, 53>>, <<0, 0, 42>> >>,
     << <<0, 0, 42>>, <<0, 0, 31>> >>,
     << <<0, 0, 31>>, <<0, 0, 21>> >>,
     << <<0, 0, 21>>, <<0, 0, 5>> >>,
     << <<0, 0, 5>>, <<0, 0, 0>> >>,
     << <<255, 255, 0>>, <<238, 240, 0>> >>,
     << <<238, 240, 0>>, <<221, 225, 0>> >>,
     << <<221, 225, 0>>, <<205, 210, 0>> >>,
     << <<205, 210, 0>>, <<189, 195, 0>> >>,
     << <<189, 195, 0>>, <<173, 180, 0>> >>,
     << <<173, 180, 0>>, <<157, 165, 0>> >>,
     << <<157, 165, 0>>, <<142, 151, 0>> >>,
     << <<142, 151, 0>>, <<127, 137, 0>> >>,
     << <<127, 137, 0>>, <<112, 123, 0>> >>,
     << <<112, 123, 0>>, <<98, 109, 0>> >>,
     << <<98, 109, 0>>, <<84, 96, 0>> >>,
     << <<84, 96, 0>>, <<70, 83, 0>> >>,
     << <<70, 83, 0>>, <<57, 70, 0>> >>,
     << <<57, 70, 0>>, <<45, 58, 0>> >>,
     << <<45, 58, 0>>, <<34, 46, 0>> >>,
     << <<34, 46, 0>>, <<26, 34, 0>> >>,
     << <<26, 34, 0>>, <<16, 23, 0>> >>,
     << <<16, 23, 0>>, <<0, 9, 0>> >>,
     << <<0, 9, 0>>, <<0, 0, 0>> >>,
     << <<255, 0, 0>>, <<237, 0, 0>> >>,
     << <<237, 0, 0>>, <<219, 0, 0>> >>,
     << <<219, 0, 0>>, <<201, 0, 0>> >>,
     << <<201, 0, 0>>, <<183, 0, 0>> >>,
     << <<183, 0, 0>>, <<166, 0, 0>> >>,
     << <<166, 0, 0>>, <<149, 0, 0>> >>,
     << <<149, 0, 0>>, <<133, 0, 0>> >>,
     << <<133, 0, 0>>, <<117, 0, 0>> >>,
     << <<117, 0, 0>>, <<102, 0, 0>> >>,
     << <<102, 0, 0>>, <<87, 0, 0>> >>,
     << <<87, 0, 0>>, <<73, 0, 0>> >>,
     << <<73, 0, 0>>, <<60, 0, 0>> >>,
     << <<60, 0, 0>>, <<50, 0, 0>> >>,
     << <<50, 0, 0>>, <<43, 0, 0>> >>,
     << <<43, 0, 0>>, <<36, 0, 0>> >>,
     << <<36, 0, 0>>, <<28, 0, 0>> >>,
     << <<28, 0, 0>>, <<17, 0, 0>> >>,
     << <<17, 0, 0>>, <<0, 0, 0>> >> >>

IsGray(c) == c[1] = c[2] /\ c[2] = c[3]

StepColor(c, grayTable, chromaticTable) ==
  IF IsGray(c) THEN <<grayTable[c[1] + 1], grayTable[c[1] + 1], grayTable[c[1] + 1]>>
  ELSE chromaticTable[CHOOSE k \in 1..Len(chromaticTable) : chromaticTable[k][1] = c][2]

\* chroma(hex).brighten(0.3).hex() and chroma(hex).darken(0.3).hex()
brighten(hex) ==
  LET c == chroma(hex)
      n == StepColor(c.rgb, BrightenGray, BrightenChromatic)
  IN chromaHex(MkColor(n[1], n[2], n[3], c.a))

darken(hex) ==
  LET c == chroma(hex)
      n == StepColor(c.rgb, DarkenGray, DarkenChromatic)
  IN chromaHex(MkColor(n[1], n[2], n[3], c.a))

----------------------------------------------------------------------------
(* checkWCAGCompliance and generateWCAGSuggestions.  The rounded contrast  *)
(* ratio is an integer number of hundredths; the ratios the suggestion     *)
(* search compares are in units of 1/10000.                                *)

\* const targetRatio = 4.5, in units of 1/10000.
targetRatio == 45000

maxIterations == 20

createEmptyWCAGResult(fg, bg) ==
  [kind |-> "ok", foreground |-> fg, background |-> bg,
   contrastRatio |-> 100,
   aaLevel |-> [normal |-> FALSE, large |-> FALSE],
   aaaLevel |-> [normal |-> FALSE, large |-> FALSE],
   suggestions |-> [lightVersion |-> fg, darkVersion |-> fg]]

\* The catch block of checkWCAGCompliance.
WcagRethrow(fg, bg) == [createEmptyWCAGResult(fg, bg) EXCEPT !.kind = "throw"]

WcagOnThrow(fg, bg) == createEmptyWCAGResult(fg, bg)

\* The rounded ratio of the foreground's luminance to the background's,
\* whichever is the lighter.
RoundedContrastOrdered(fg, bg) ==
  RoundDiv(100 * (chromaLuminance(chroma(fg).rgb) + 50000),
           chromaLuminance(chroma(bg).rgb) + 50000)

\* Math.round(chroma.contrast(fg, bg) * 100) / 100, in hundredths.
RoundedContrast(fg, bg) ==
  RoundDiv(100 * ContrastNum(chroma(fg), chroma(bg)), ContrastDen(chroma(fg), chroma(bg)))

\* Colour strings handed to checkWCAGCompliance: grays spread over the range,
\* grays near the thresholds, chromatic colours, malformed strings.
GrayLevels == { (255 * k) \div GrayCount : k \in 0..GrayCount }

WcagInputs ==
  { rgbToHex(x, x, x) : x \in GrayLevels \cup {14, 119, 122, 149} }
    \cup { <<"#","0","0","0","0","f","f">>, <<"#","f","f","f","f","0","0">>,
           <<"#","F","F","0","0","0","0">>,
           <<"#","1","2">>, <<"#","g","g","g","g","g","g">> }

WcagInit ==
  /\ foreground \in WcagInputs /\ background \in WcagInputs
  /\ wcagPc = "ready"
  /\ roundedRatio = 0 /\ aaLevel = NoLevel /\ aaaLevel = NoLevel
  /\ lightVersion = <<>> /\ lightRatio = 0 /\ lightIterations = 0
  /\ darkVersion = <<>> /\ darkRatio = 0 /\ darkIterations = 0
  /\ wcagOut = NoWcagOut
  /\ MixIdle /\ AnimIdle /\ DeIdle /\ BlindIdle /\ UtilIdle /\ UiIdle

\* checkWCAGCompliance up to the call of generateWCAGSuggestions: chroma()
\* throws on an unparsable colour and the catch block answers; otherwise the
\* ratio is rounded, the levels are set and the brighten loop is entered.
\* chroma.contrast is finite for every pair of colours, so the isFinite
\* guard never fires.
CheckWCAG ==
  /\ wcagPc = "ready"
  /\ IF ~chroma(foreground).ok \/ ~chroma(background).ok
     THEN /\ wcagOut' = WcagOnThrow(foreground, background)
          /\ wcagPc' = "done"
          /\ UNCHANGED <<roundedRatio, aaLevel, aaaLevel,
                         lightVersion, lightRatio, lightIterations>>
     ELSE IF ~chromaValid(foreground) \/ ~chromaValid(background)
     THEN /\ wcagOut' = createEmptyWCAGResult(foreground, background)
          /\ wcagPc' = "done"
          /\ UNCHANGED <<roundedRatio, aaLevel, aaaLevel,
                         lightVersion, lightRatio, lightIterations>>
     ELSE LET r == RoundedContrast(foreground, background) IN
          /\ roundedRatio' = r
          /\ aaLevel' = [normal |-> r >= 450, large |-> r >= 300]
          /\ aaaLevel' = [normal |-> r >= 700, large |-> r >= 450]
          /\ lightVersion' = foreground
          /\ lightRatio' = 100 * r
          /\ lightIterations' = 0
          /\ wcagPc' = "light"
          /\ UNCHANGED wcagOut
  /\ UNCHANGED <<foreground, background, darkVersion, darkRatio, darkIterations,
                 mixVars, animVars, deVars, blindVars, utilVars, uiVars>>

\* Leaving the brighten loop: the darken loop starts from the foreground.
EnterDark ==
  /\ darkVersion' = foreground
  /\ darkRatio' = 100 * roundedRatio
  /\ darkIterations' = 0
  /\ wcagPc' = "dark"

\* Leaving the darken loop: generateWCAGSuggestions returns and
\* checkWCAGCompliance returns its result.
ReturnResult ==
  /\ wcagOut' = [kind |-> "ok", foreground |-> foreground, background |-> background,
                 contrastRatio |-> roundedRatio,
                 aaLevel |-> aaLevel, aaaLevel |-> aaaLevel,
                 suggestions |-> [lightVersion |-> lightVersion,
                                  darkVersion |-> darkVersion]]
  /\ wcagPc' = "done"

\* The brighten loop without its iteration bound and without its
\* no-improvement exit.
LightStepUnbounded ==
  /\ wcagPc = "light"
  /\ lightRatio < targetRatio
  /\ lightVersion' = brighten(lightVersion)
  /\ lightRatio' = chromaContrast(chroma(brighten(lightVersion)), chroma(background))
  /\ lightIterations' = lightIterations + 1
  /\ UNCHANGED <<foreground, background, wcagPc, roundedRatio, aaLevel, aaaLevel,
                 darkVersion, darkRatio, darkIterations, wcagOut,
                 mixVars, animVars, deVars, blindVars, utilVars, uiVars>>

\* One pass through the body of
\*   while (lightRatio < targetRatio && lightIterations < maxIterations)
LightStep ==
  /\ wcagPc = "light"
  /\ lightRatio < targetRatio /\ lightIterations < maxIterations
  /\ LET newColor == brighten(lightVersion)
         newRatio == chromaContrast(chroma(newColor), chroma(background))
     IN IF newRatio <= lightRatio
        THEN /\ EnterDark
             /\ UNCHANGED <<lightVersion, lightRatio, lightIterations>>
        ELSE /\ lightVersion' = newColor
             /\ lightRatio' = newRatio
             /\ lightIterations' = lightIterations + 1
             /\ IF newRatio > 210000
                THEN EnterDark
                ELSE UNCHANGED <<wcagPc, darkVersion, darkRatio, darkIterations>>
  /\ UNCHANGED <<foreground, background, roundedRatio, aaLevel, aaaLevel, wcagOut,
                 mixVars, animVars, deVars, blindVars, utilVars, uiVars>>

\* The while condition of the brighten loop is false.
LightExit ==
  /\ wcagPc = "light"
  /\ ~(lightRatio < targetRatio /\ lightIterations < maxIterations)
  /\ EnterDark
  /\ UNCHANGED <<foreground, background, roundedRatio, aaLevel, aaaLevel,
                 lightVersion, lightRatio, lightIterations, wcagOut,
                 mixVars, animVars, deVars, blindVars, utilVars, uiVars>>

\* One pass through the body of
\*   while (darkRatio < targetRatio && darkIterations < maxIterations)
DarkStep ==
  /\ wcagPc = "dark"
  /\ darkRatio < targetRatio /\ darkIterations < maxIterations
  /\ LET newColor == darken(darkVersion)
         newRatio == chromaContrast(chroma(newColor), chroma(background))
     IN IF newRatio <= darkRatio
        THEN /\ ReturnResult
             /\ UNCHANGED <<darkVersion, darkRatio, darkIterations>>
        ELSE /\ darkVersion' = newColor
             /\ darkRatio' = newRatio
             /\ darkIterations' = darkIterations + 1
             /\ IF newRatio > 210000
                THEN /\ wcagPc' = "done"
                     /\ wcagOut' =
                          [kind |-> "ok", foreground |-> foreground,
                           background |-> background,
                           contrastRatio |-> roundedRatio,
                           aaLevel |-> aaLevel, aaaLevel |-> aaaLevel,
                           suggestions |-> [lightVersion |-> lightVersion,
                                            darkVersion |-> newColor]]
                ELSE UNCHANGED <<wcagPc, wcagOut>>
  /\ UNCHANGED <<foreground, background, roundedRatio, aaLevel, aaaLevel,
                 lightVersion, lightRatio, lightIterations,
                 mixVars, animVars, deVars, blindVars, utilVars, uiVars>>

\* The while condition of the darken loop is false.
DarkExit ==
  /\ wcagPc = "dark"
  /\ ~(darkRatio < targetRatio /\ darkIterations < maxIterations)
  /\ ReturnResult
  /\ UNCHANGED <<foreground, background, roundedRatio, aaLevel, aaaLevel,
                 lightVersion, lightRatio, lightIterations,
                 darkVersion, darkRatio, darkIterations,
                 mixVars, animVars, deVars, blindVars, utilVars, uiVars>>

WcagNext == CheckWCAG \/ LightStep \/ LightExit \/ DarkStep \/ DarkExit

SpecWCAG == WcagInit /\ [][WcagNext]_vars

BothValid == chromaValid(foreground) /\ chromaValid(background)

\* C1: the suggestion search terminates: the brighten loop and the darken
\* loop each accept at most 20 steps (every step of the model either
\* accepts an adjustment or leaves its loop), and lightVersion and
\* darkVersion are then returned; foreground = background included.
C1_SearchBounded ==
  /\ lightIterations <= 20
  /\ darkIterations <= 20
  /\ (wcagPc = "done" /\ BothValid) =>
       /\ wcagOut.kind = "ok"
       /\ wcagOut.suggestions = [lightVersion |-> lightVersion,
                                 darkVersion |-> darkVersion]

C1_Witness ==
  /\ wcagPc = "done" /\ BothValid /\ foreground = background
  /\ lightIterations > 0 /\ darkIterations > 0
  /\ wcagOut.suggestions.lightVersion # foreground

\* C9: checkWCAGCompliance never throws; for a malformed foreground or
\* background it returns contrastRatio 1.0, all four flags false and both
\* suggestions equal to the foreground argument.
C9_MalformedGivesSentinel ==
  wcagPc = "done" =>
     /\ wcagOut.kind = "ok"
     /\ ~BothValid =>
          wcagOut = [kind |-> "ok", foreground |-> foreground,
                     background |-> background, contrastRatio |-> 100,
                     aaLevel |-> [normal |-> FALSE, large |-> FALSE],
                     aaaLevel |-> [normal |-> FALSE, large |-> FALSE],
                     suggestions |-> [lightVersion |-> foreground,
                                      darkVersion |-> foreground]]

C9_Witness ==
  /\ wcagPc = "done" /\ chromaValid(foreground) /\ ~chromaValid(background)
  /\ wcagOut.contrastRatio = 100
  /\ wcagOut.suggestions.darkVersion = foreground

\* Whether the pair's contrast ratio is at least t hundredths.
ContrastAtLeast(t) ==
  100 * ContrastNum(chroma(foreground), chroma(background))
    >= t * ContrastDen(chroma(foreground), chroma(background))

\* C10: for valid colours, aaLevel.normal iff the pair's contrast ratio is
\* >= 4.5, aaLevel.large iff >= 3.0, aaaLevel.normal iff >= 7.0 and
\* aaaLevel.large iff >= 4.5.
C10_LevelsFollowContrast ==
  (wcagPc = "done" /\ BothValid) =>
     /\ wcagOut.aaLevel.normal <=> ContrastAtLeast(450)
     /\ wcagOut.aaLevel.large <=> ContrastAtLeast(300)
     /\ wcagOut.aaaLevel.normal <=> ContrastAtLeast(700)
     /\ wcagOut.aaaLevel.large <=> ContrastAtLeast(450)
     /\ wcagOut.aaaLevel.normal => wcagOut.aaLevel.normal
     /\ wcagOut.aaLevel.normal => wcagOut.aaLevel.large
     /\ wcagOut.aaaLevel.large = wcagOut.aaLevel.normal

----------------------------------------------------------------------------
(* chroma-js HSL: Color.hsl() of a parsed colour and chroma.hsl(h, s, l).  *)
(* Hue (degrees), saturation and lightness are rationals <<num, den>>.     *)

\* Whether Color.hsl() gives NaN for the hue (an achromatic colour).
HueIsNaN(c) == HueDen(c) = 0

\* Color.hsl()[0], [1], [2] of a chromatic colour c (an RGB triple).
Hue(c) == <<HueNum(c), HueDen(c)>>
Saturation(c) == IF HueIsNaN(c) THEN <<0, 1>> ELSE <<SatNum(c), SatDen(c)>>
Lightness(c) == <<LightSum(c), 510>>

\* (h + offset) % 360 for 0 <= h + offset.
RotateHue(h, offset) == <<(h[1] + offset * h[2]) % (360 * h[2]), h[2]>>

\* s * num / den.
Scale(s, num, den) == <<s[1] * num, s[2] * den>>

SameNumber(a, b) == a[1] * b[2] = b[1] * a[2]

\* chroma.hsl(h, s, l).hex() as the library computes it in double
\* precision, for the arguments the model's inputs lead to:
\* << h, s, l, the 8-bit channels of the result >>.
HslTable ==
  { << <<0, 1>>, <<4, 5>>, <<1, 2>>, <<230, 25, 25>> >>,
    << <<150, 17>>, <<1, 1>>, <<1, 2>>, <<255, 37, 0>> >>,
    << <<10, 1>>, <<3, 5>>, <<1, 2>>, <<204, 76, 51>> >>,
    << <<30, 1>>, <<0, 1>>, <<0, 1>>, <<0, 0, 0>> >>,
    << <<30, 1>>, <<0, 1>>, <<128, 255>>, <<128, 128, 128>> >>,
    << <<30, 1>>, <<0, 1>>, <<1, 1>>, <<255, 255, 255>> >>,
    << <<30, 1>>, <<1, 2>>, <<1, 2>>, <<191, 128, 64>> >>,
    << <<30, 1>>, <<1, 2>>, <<128, 255>>, <<192, 128, 65>> >>,
    << <<30, 1>>, <<1, 2>>, <<1, 1>>, <<255, 255, 255>> >>,
    << <<30, 1>>, <<7, 10>>, <<127, 255>>, <<216, 127, 38>> >>,
    << <<30, 1>>, <<7, 10>>, <<1, 2>>, <<217, 127, 38>> >>,
    << <<30, 1>>, <<1, 1>>, <<1, 2>>, <<255, 128, 0>> >>,
    << <<40, 1>>, <<3, 5>>, <<1, 2>>, <<204, 153, 51>> >>,
    << <<1170, 17>>, <<1, 1>>, <<1, 2>>, <<217, 255, 0>> >>,
    << <<70, 1>>, <<3, 5>>, <<1, 2>>, <<178, 204, 51>> >>,
    << <<90, 1>>, <<0, 1>>, <<0, 1>>, <<0, 0, 0>> >>,
    << <<90, 1>>, <<0, 1>>, <<128, 255>>, <<128, 128, 128>> >>,
    << <<90, 1>>, <<0, 1>>, <<1, 1>>, <<255, 255, 255>> >>,
    << <<90, 1>>, <<1, 2>>, <<1, 2>>, <<128, 191, 64>> >>,
    << <<90, 1>>, <<1, 2>>, <<128, 255>>, <<128, 192, 65>> >>,
    << <<90, 1>>, <<1, 2>>, <<1, 1>>, <<255, 255, 255>> >>,
    << <<90, 1>>, <<7, 10>>, <<1, 2>>, <<128, 217, 38>> >>,
    << <<90, 1>>, <<1, 1>>, <<1, 2>>, <<128, 255, 0>> >>,
    << <<100, 1>>, <<3, 5>>, <<1, 2>>, <<102, 204, 51>> >>,
    << <<120, 1>>, <<0, 1>>, <<0, 1>>, <<0, 0, 0>> >>,
    << <<120, 1>>, <<0, 1>>, <<128, 255>>, <<128, 128, 128>> >>,
    << <<120, 1>>, <<0, 1>>, <<1, 1>>, <<255, 255, 255>> >>,
    << <<120, 1>>, <<1, 2>>, <<1, 2>>, <<64, 191, 64>> >>,
    << <<120, 1>>, <<1, 2>>, <<128, 255>>, <<65, 192, 65>> >>,
    << <<120, 1>>, <<1, 2>>, <<1, 1>>, <<255, 255, 255>> >>,
    << <<120, 1>>, <<1, 1>>, <<1, 2>>, <<0, 255, 0>> >>,
    << <<2190, 17>>, <<1, 1>>, <<1, 2>>, <<0, 255, 37>> >>,
    << <<130, 1>>, <<3, 5>>, <<1, 2>>, <<51, 204, 77>> >>,
    << <<150, 1>>, <<0, 1>>, <<0, 1>>, <<0, 0, 0>> >>,
    << <<150, 1>>, <<0, 1>>, <<128, 255>>, <<128, 128, 128>> >>,
    << <<150, 1>>, <<0, 1>>, <<1, 1>>, <<255, 255, 255>> >>,
    << <<150, 1>>, <<1, 2>>, <<1, 2>>, <<64, 191, 128>> >>,
    << <<150, 1>>, <<1, 2>>, <<128, 255>>, <<65, 192, 128>> >>,
    << <<150, 1>>, <<1, 2>>, <<1, 1>>, <<255, 255, 255>> >>,
    << <<150, 1>>, <<7, 10>>, <<1, 2>>, <<38, 217, 128>> >>,
    << <<150, 1>>, <<1, 1>>, <<1, 2>>, <<0, 255, 128>> >>,
    << <<2700, 17>>, <<1, 1>>, <<1, 2>>, <<0, 255, 165>> >>,
    << <<180, 1>>, <<0, 1>>, <<0, 1>>, <<0, 0, 0>> >>,
    << <<180, 1>>, <<0, 1>>, <<128, 255>>, <<128, 128, 128>> >>,
    << <<180, 1>>, <<0, 1>>, <<1, 1>>, <<255, 255, 255>> >>,
    << <<180, 1>>, <<1, 2>>, <<1, 2>>, <<64, 191, 191>> >>,
    << <<180, 1>>, <<1, 2>>, <<128, 255>>, <<65, 191, 192>> >>,
    << <<180, 1>>, <<1, 2>>, <<1, 1>>, <<255, 255, 255>> >>,
    << <<180, 1>>, <<1, 1>>, <<1, 2>>, <<0, 255, 255>> >>,
    << <<3210, 17>>, <<1, 1>>, <<1, 2>>, <<0, 217, 255>> >>,
    << <<190, 1>>, <<3, 5>>, <<1, 2>>, <<51, 178, 204>> >>,
    << <<210, 1>>, <<0, 1>>, <<0, 1>>, <<0, 0, 0>> >>,
    << <<210, 1>>, <<0, 1>>, <<128, 255>>, <<128, 128, 128>> >>,
    << <<210, 1>>, <<0, 1>>, <<1, 1>>, <<255, 255, 255>> >>,
    << <<210, 1>>, <<1, 2>>, <<1, 2>>, <<64, 127, 191>> >>,
    << <<210, 1>>, <<1, 2>>, <<128, 255>>, <<65, 128, 192>> >>,
    << <<210, 1>>, <<1, 2>>, <<1, 1>>, <<255, 255, 255>> >>,
    << <<210, 1>>, <<1, 1>>, <<1, 2>>, <<0, 127, 255>> >>,
    << <<3720, 17>>, <<1, 1>>, <<1, 2>>, <<0, 90, 255>> >>,
    << <<240, 1>>, <<0, 1>>, <<0, 1>>, <<0, 0, 0>> >>,
    << <<240, 1>>, <<0, 1>>, <<128, 255>>, <<128, 128, 128>> >>,
    << <<240, 1>>, <<0, 1>>, <<1, 1>>, <<255, 255, 255>> >>,
    << <<240, 1>>, <<1, 2>>, <<1, 2>>, <<64, 64, 191>> >>,
    << <<240, 1>>, <<1, 2>>, <<128, 255>>, <<65, 65, 192>> >>,
    << <<240, 1>>, <<1, 2>>, <<1, 1>>, <<255, 255, 255>> >>,
    << <<240, 1>>, <<1, 1>>, <<1, 2>>, <<0, 0, 255>> >>,
    << <<4230, 17>>, <<1, 1>>, <<1, 2>>, <<37, 0, 255>> >>,
    << <<250, 1>>, <<3, 5>>, <<1, 2>>, <<76, 51, 204>> >>,
    << <<270, 1>>, <<0, 1>>, <<0, 1>>, <<0, 0, 0>> >>,
    << <<270, 1>>, <<0, 1>>, <<128, 255>>, <<128, 128, 128>> >>,
    << <<270, 1>>, <<0, 1>>, <<1, 1>>, <<255, 255, 255>> >>,
    << <<270, 1>>, <<1, 2>>, <<1, 2>>, <<127, 64, 191>> >>,
    << <<270, 1>>, <<1, 2>>, <<128, 255>>, <<128, 65, 192>> >>,
    << <<270, 1>>, <<1, 2>>, <<1, 1>>, <<255, 255, 255>> >>,
    << <<270, 1>>, <<7, 10>>, <<1, 2>>, <<127, 38, 217>> >>,
    << <<270, 1>>, <<1, 1>>, <<1, 2>>, <<127, 0, 255>> >>,
    << <<4740, 17>>, <<1, 1>>, <<1, 2>>, <<165, 0, 255>> >>,
    << <<300, 1>>, <<4, 5>>, <<1, 2>>, <<230, 25, 229>> >>,
    << <<5250, 17>>, <<1, 1>>, <<1, 2>>, <<255, 0, 218>> >>,
    << <<310, 1>>, <<3, 5>>, <<1, 2>>, <<204, 51, 178>> >>,
    << <<330, 1>>, <<0, 1>>, <<0, 1>>, <<0, 0, 0>> >>,
    << <<330, 1>>, <<0, 1>>, <<128, 255>>, <<128, 128, 128>> >>,
    << <<330, 1>>, <<0, 1>>, <<1, 1>>, <<255, 255, 255>> >>,
    << <<330, 1>>, <<1, 2>>, <<1, 2>>, <<191, 64, 128>> >>,
    << <<330, 1>>, <<1, 2>>, <<128, 255>>, <<192, 65, 128>> >>,
    << <<330, 1>>, <<1, 2>>, <<1, 1>>, <<255, 255, 255>> >>,
    << <<330, 1>>, <<7, 10>>, <<1, 2>>, <<217, 38, 128>> >>,
    << <<330, 1>>, <<1, 1>>, <<1, 2>>, <<255, 0, 128>> >>,
    << <<340, 1>>, <<3, 5>>, <<1, 2>>, <<204, 51, 102>> >> }

\* chroma.hsl(h, s, l), rounded to 8 bits per channel as hex() does.
chromaHsl(h, s, l) ==
  LET t == CHOOSE t \in HslTable :
             SameNumber(t[1], h) /\ SameNumber(t[2], s) /\ SameNumber(t[3], l)
  IN MkColor(t[4][1], t[4][2], t[4][3], 255)

----------------------------------------------------------------------------
(* simulateColorBlindness and evaluateColorBlindnessAccessibility.         *)

MaxBlindColors == 3

\* hsl[0] >= 0 && hsl[0] <= 60 with the upper bound left out.
InProtanomalyBandOpen(c) == ~HueIsNaN(c) /\ HueNum(c) >= 0

\* hsl[0] >= 0 && hsl[0] <= 60; every comparison with NaN is false.
InProtanomalyBand(c) ==
  ~HueIsNaN(c) /\ HueNum(c) >= 0 /\ HueNum(c) <= 60 * HueDen(c)

\* hsl[0] >= 60 && hsl[0] <= 180
InDeuteranomalyBand(c) ==
  ~HueIsNaN(c) /\ HueNum(c) >= 60 * HueDen(c) /\ HueNum(c) <= 180 * HueDen(c)

\* hsl[0] >= 180 && hsl[0] <= 300
InTritanomalyBand(c) ==
  ~HueIsNaN(c) /\ HueNum(c) >= 180 * HueDen(c) /\ HueNum(c) <= 300 * HueDen(c)

simulateProtanomaly(hex) ==
  LET c == chroma(hex).rgb
  IN IF InProtanomalyBand(c)
     THEN chromaHex(chromaHsl(RotateHue(Hue(c), 30), Scale(Saturation(c), 7, 10),
                              Lightness(c)))
     ELSE hex

simulateDeuteranomaly(hex) ==
  LET c == chroma(hex).rgb
  IN IF InDeuteranomalyBand(c)
     THEN chromaHex(chromaHsl(<<HueNum(c) - 20 * HueDen(c), HueDen(c)>>,
                              Scale(Saturation(c), 6, 10), Lightness(c)))
     ELSE hex

simulateTritanomaly(hex) ==
  LET c == chroma(hex).rgb
  IN IF InTritanomalyBand(c)
     THEN chromaHex(chromaHsl(RotateHue(Hue(c), 60), Scale(Saturation(c), 8, 10),
                              Lightness(c)))
     ELSE hex

\* Math.round(luminance * 255) as the level of a gray.
simulateMonochromacy(hex) ==
  LET grayValue == RoundDiv(255 * chromaLuminance(chroma(hex).rgb), 1000000)
  IN chromaHex(chromaRgb(grayValue, grayValue, grayValue))

\* `${color.name || 'Color'} (suffix)`
VariantName(name, suffix) ==
  (IF name = <<>> THEN <<"Color">> ELSE name) \o <<suffix>>

\* colors.map(color => ({...color, hex: ..., name: ...})) for the four
\* variants, 0-based as evaluateColorBlindnessAccessibility indexes them.
SimulateVariant(cs, index) ==
  [k \in 1..Len(cs) |->
     [cs[k] EXCEPT
        !.hex = CASE index = 0 -> simulateProtanomaly(cs[k].hex)
                  [] index = 1 -> simulateDeuteranomaly(cs[k].hex)
                  [] index = 2 -> simulateTritanomaly(cs[k].hex)
                  [] OTHER -> simulateMonochromacy(cs[k].hex),
        !.name = CASE index = 0 -> VariantName(cs[k].name, " (type 1)")
                   [] index = 1 -> VariantName(cs[k].name, " (type 2)")
                   [] index = 2 -> VariantName(cs[k].name, " (type 3)")
                   [] OTHER -> VariantName(cs[k].name, " (monochrome)")]]

\* variants[index] of evaluateColorBlindnessAccessibility.
Variant(index) ==
  CASE index = 0 -> protanomaly
    [] index = 1 -> deuteranomaly
    [] index = 2 -> tritanomaly
    [] OTHER -> monochromacy

\* for (let j = i + 1; ...) started at j = i.
InnerStartSame(i) == i

\* for (let j = i + 1; ...)
InnerStart(i) == i + 1

\* The loop position <<index, i, j>> of the first comparison made at or
\* after variant index, row i, for arrays of n colours; index 4 when the
\* forEach is over.
RECURSIVE SeekPair(_, _, _)
SeekPair(index, i, n) ==
  IF index >= 4 THEN <<4, 0, 0>>
  ELSE IF i < n - 1 /\ InnerStart(i) < n THEN <<index, i, InnerStart(i)>>
  ELSE IF i < n - 1 THEN SeekPair(index, i + 1, n)
  ELSE SeekPair(index + 1, 0, n)

\* The position after the comparison at <<index, i, j>>.
NextPair(index, i, j, n) ==
  IF j + 1 < n THEN <<index, i, j + 1>> ELSE SeekPair(index, i + 1, n)

\* The three fixed recommendations.
Recommendations == <<"increase lightness difference", "add patterns or textures",
                     "use shape and size cues">>

\* ColorInfo values the palette screens hand over, built by createColorInfo.
BlindPalette ==
  { createColorInfo(255, 0, 0, "b1"),
    createColorInfo(254, 0, 0, "b2"),
    createColorInfo(255, 255, 0, "b3"),
    createColorInfo(0, 255, 0, "b4"),
    createColorInfo(0, 0, 255, "b5"),
    createColorInfo(128, 128, 128, "b6"),
    createColorInfo(255, 0, 255, "b7") }

BlindInit ==
  /\ blindColors \in UNION { [1..k -> BlindPalette] : k \in 0..MaxBlindColors }
  /\ blindPc = "ready"
  /\ protanomaly = <<>> /\ deuteranomaly = <<>> /\ tritanomaly = <<>>
  /\ monochromacy = <<>>
  /\ variantIndex = 0 /\ pairI = 0 /\ pairJ = 0
  /\ issues = <<>> /\ compared = <<>> /\ blindOut = [kind |-> "none"]
  /\ MixIdle /\ AnimIdle /\ DeIdle /\ WcagIdle /\ UtilIdle /\ UiIdle

\* simulateColorBlindness up to the call of
\* evaluateColorBlindnessAccessibility, and that function up to its first
\* comparison.
SimulateColorBlindness ==
  /\ blindPc = "ready"
  /\ protanomaly' = SimulateVariant(blindColors, 0)
  /\ deuteranomaly' = SimulateVariant(blindColors, 1)
  /\ tritanomaly' = SimulateVariant(blindColors, 2)
  /\ monochromacy' = SimulateVariant(blindColors, 3)
  /\ issues' = <<>> /\ compared' = <<>>
  /\ LET p == SeekPair(0, 0, Len(blindColors)) IN
       /\ variantIndex' = p[1] /\ pairI' = p[2] /\ pairJ' = p[3]
  /\ blindPc' = "compare"
  /\ UNCHANGED <<blindColors, blindOut, mixVars, animVars, deVars, wcagVars, utilVars, uiVars>>

\* One pass through the body of the inner loop: the Delta E of the pair, an
\* issue pushed when it is below 3, and the loop variables advanced.
ComparePair ==
  /\ blindPc = "compare" /\ variantIndex < 4
  /\ LET variant == Variant(variantIndex)
         deltaE == calculateDeltaE2000(variant[pairI + 1].hex, variant[pairJ + 1].hex).value
         p == NextPair(variantIndex, pairI, pairJ, Len(variant))
     IN /\ compared' = Append(compared, <<variantIndex, pairI, pairJ>>)
        /\ issues' = IF deltaE < 300
                     THEN Append(issues, [type |-> variantIndex, first |-> pairI + 1,
                                          second |-> pairJ + 1, deltaE |-> deltaE])
                     ELSE issues
        /\ variantIndex' = p[1] /\ pairI' = p[2] /\ pairJ' = p[3]
  /\ UNCHANGED <<blindColors, blindPc, protanomaly, deuteranomaly, tritanomaly,
                 monochromacy, blindOut, mixVars, animVars, deVars, wcagVars, utilVars, uiVars>>

\* The forEach is over: the recommendations are added when there is an
\* issue, and simulateColorBlindness returns.
EvaluateReturn ==
  /\ blindPc = "compare" /\ variantIndex >= 4
  /\ blindOut' = [kind |-> "ok",
                  original |-> blindColors,
                  protanomaly |-> protanomaly,
                  deuteranomaly |-> deuteranomaly,
                  tritanomaly |-> tritanomaly,
                  monochromacy |-> monochromacy,
                  accessibility |->
                    [isAccessible |-> Len(issues) = 0,
                     issues |-> issues,
                     recommendations |->
                       IF Len(issues) > 0 THEN Recommendations ELSE <<>>]]
  /\ blindPc' = "done"
  /\ UNCHANGED <<blindColors, protanomaly, deuteranomaly, tritanomaly, monochromacy,
                 variantIndex, pairI, pairJ, issues, compared,
                 mixVars, animVars, deVars, wcagVars, utilVars, uiVars>>

BlindNext == SimulateColorBlindness \/ ComparePair \/ EvaluateReturn

SpecBlind == BlindInit /\ [][BlindNext]_vars

\* The loop positions <<index, i, j>> with i < j for arrays of n colours.
PairsOf(n) ==
  { t \in (0..3) \X (0..(n - 1)) \X (0..(n - 1)) : t[2] < t[3] }

\* Whether the colours t[2] and t[3] of variant t[1] are less than 3 apart.
HardToTell(t) ==
  calculateDeltaE2000(Variant(t[1])[t[2] + 1].hex, Variant(t[1])[t[3] + 1].hex).value < 300

IssuesFor(t) ==
  { k \in 1..Len(issues) :
      /\ issues[k].type = t[1]
      /\ issues[k].first = t[2] + 1
      /\ issues[k].second = t[3] + 1 }

\* C12: for each of the 4 variants every unordered pair i < j is compared
\* exactly once, exactly one issue is recorded for each (variant, pair)
\* whose Delta E is below 3 and none for the others, isAccessible is true
\* iff there is no issue, and the three recommendations are attached iff
\* there is an issue.
C12_EveryPairOnce ==
  blindPc = "done" =>
     LET n == Len(blindColors)
         acc == blindOut.accessibility
     IN /\ Len(compared) = Cardinality(PairsOf(n))
        /\ { compared[k] : k \in 1..Len(compared) } = PairsOf(n)
        /\ \A t \in PairsOf(n) :
             Cardinality(IssuesFor(t)) = IF HardToTell(t) THEN 1 ELSE 0
        /\ Len(issues) = Cardinality({ t \in PairsOf(n) : HardToTell(t) })
        /\ acc.issues = issues
        /\ acc.isAccessible <=> (acc.issues = <<>>)
        /\ acc.recommendations = IF acc.issues = <<>> THEN <<>> ELSE Recommendations
        /\ Len(Recommendations) = 3

C12_Witness ==
  /\ blindPc = "done" /\ Len(blindColors) = 3
  /\ Len(compared) = 12
  /\ Len(issues) = 1 /\ issues[1].type = 3
  /\ ~blindOut.accessibility.isAccessible
  /\ Len(blindOut.accessibility.recommendations) = 3

\* C13: the protanomaly, deuteranomaly and tritanomaly variants keep the
\* hex of every colour whose hue is outside [0,60], [60,180] and [180,300]
\* degrees respectively, achromatic colours (hue undefined) included;
\* original is the input array, and every variant array has the length,
\* order and ids of the input.
C13_OutsideBandUnchanged ==
  blindPc \in {"compare", "done"} =>
     /\ \A index \in 0..3 :
          /\ Len(Variant(index)) = Len(blindColors)
          /\ \A k \in 1..Len(blindColors) : Variant(index)[k].id = blindColors[k].id
     /\ \A k \in 1..Len(blindColors) :
          LET c == hexToRgb(blindColors[k].hex).rgb
              d == HueDen(c)
              h == HueNum(c)
          IN /\ (d = 0 \/ h < 0 \/ h > 60 * d) =>
                  protanomaly[k].hex = blindColors[k].hex
             /\ (d = 0 \/ h < 60 * d \/ h > 180 * d) =>
                  deuteranomaly[k].hex = blindColors[k].hex
             /\ (d = 0 \/ h < 180 * d \/ h > 300 * d) =>
                  tritanomaly[k].hex = blindColors[k].hex
     /\ blindPc = "done" =>
          /\ blindOut.original = blindColors
          /\ blindOut.protanomaly = protanomaly
          /\ blindOut.deuteranomaly = deuteranomaly
          /\ blindOut.tritanomaly = tritanomaly
          /\ blindOut.monochromacy = monochromacy

C13_Witness ==
  /\ blindPc = "done" /\ Len(blindColors) = 3
  /\ \E k \in 1..3 : HueDen(blindColors[k].rgb) = 0
                       /\ protanomaly[k].hex = blindColors[k].hex
                       /\ tritanomaly[k].hex = blindColors[k].hex
  /\ \E k \in 1..3 : protanomaly[k].hex # blindColors[k].hex
                       /\ deuteranomaly[k].hex = blindColors[k].hex
  /\ \E k \in 1..3 : tritanomaly[k].hex # blindColors[k].hex

----------------------------------------------------------------------------
(* Conversions and classifiers called on their own: rgbToHex, hexToRgb,    *)
(* createColorInfo, the advanced getColorName and the harmony functions.   *)

\* rgbToLab(r, g, b).l: culori's CIE Lab lightness of the colour, rounded
\* to two decimals, in hundredths: << RGB triple, l >>.
LabLightnessTable ==
  { << <<200, 80, 80>>, 5079 >>,
    << <<208, 112, 80>>, 5817 >>,
    << <<160, 100, 40>>, 4837 >>,
    << <<180, 150, 60>>, 6358 >>,
    << <<200, 200, 80>>, 7889 >>,
    << <<170, 200, 80>>, 7658 >>,
    << <<140, 200, 80>>, 7465 >>,
    << <<110, 200, 80>>, 7313 >>,
    << <<80, 200, 80>>, 7201 >>,
    << <<80, 200, 110>>, 7232 >>,
    << <<80, 200, 140>>, 7275 >>,
    << <<80, 200, 170>>, 7330 >>,
    << <<80, 200, 200>>, 7399 >>,
    << <<80, 170, 200>>, 6504 >>,
    << <<80, 140, 200>>, 5617 >>,
    << <<80, 110, 200>>, 4758 >>,
    << <<80, 80, 200>>, 3964 >>,
    << <<110, 80, 200>>, 4234 >>,
    << <<140, 80, 200>>, 4575 >>,
    << <<170, 80, 200>>, 4973 >>,
    << <<200, 80, 200>>, 5414 >>,
    << <<200, 80, 170>>, 5299 >>,
    << <<200, 80, 140>>, 5205 >>,
    << <<200, 80, 110>>, 5132 >>,
    << <<200, 80, 81>>, 5081 >>,
    << <<20, 10, 10>>, 354 >>,
    << <<250, 240, 240>>, 9559 >>,
    << <<128, 128, 128>>, 5359 >>,
    << <<130, 125, 125>>, 5285 >>,
    << <<255, 0, 0>>, 5429 >>,
    << <<255, 255, 0>>, 9761 >>,
    << <<0, 0, 255>>, 2957 >>,
    << <<0, 0, 0>>, 0 >>,
    << <<255, 255, 255>>, 10000 >>,
    << <<51, 102, 204>>, 4412 >> }

rgbToLabL(c) == (CHOOSE t \in LabLightnessTable : t[1] = c)[2]

\* The hue chain of the advanced getColorName without its last band.
HueBandNoWrap(h) ==
  IF h[1] >= 0 /\ h[1] < 15 * h[2] THEN "RedKei"
  ELSE IF h[1] >= 15 * h[2] /\ h[1] < 45 * h[2] THEN "OrangeKei"
  ELSE IF h[1] >= 45 * h[2] /\ h[1] < 75 * h[2] THEN "YellowKei"
  ELSE IF h[1] >= 75 * h[2] /\ h[1] < 105 * h[2] THEN "YellowGreenKei"
  ELSE IF h[1] >= 105 * h[2] /\ h[1] < 135 * h[2] THEN "GreenKei"
  ELSE IF h[1] >= 135 * h[2] /\ h[1] < 165 * h[2] THEN "BlueGreenKei"
  ELSE IF h[1] >= 165 * h[2] /\ h[1] < 195 * h[2] THEN "CyanKei"
  ELSE IF h[1] >= 195 * h[2] /\ h[1] < 225 * h[2] THEN "SkyBlueKei"
  ELSE IF h[1] >= 225 * h[2] /\ h[1] < 255 * h[2] THEN "BlueKei"
  ELSE IF h[1] >= 255 * h[2] /\ h[1] < 285 * h[2] THEN "VioletKei"
  ELSE IF h[1] >= 285 * h[2] /\ h[1] < 315 * h[2] THEN "PurpleKei"
  ELSE IF h[1] >= 315 * h[2] /\ h[1] < 345 * h[2] THEN "MagentaKei"
  ELSE "CustomColor"

\* The hue chain of the advanced getColorName, h a rational in degrees.
HueBand(h) ==
  IF h[1] >= 0 /\ h[1] < 15 * h[2] THEN "RedKei"
  ELSE IF h[1] >= 15 * h[2] /\ h[1] < 45 * h[2] THEN "OrangeKei"
  ELSE IF h[1] >= 45 * h[2] /\ h[1] < 75 * h[2] THEN "YellowKei"
  ELSE IF h[1] >= 75 * h[2] /\ h[1] < 105 * h[2] THEN "YellowGreenKei"
  ELSE IF h[1] >= 105 * h[2] /\ h[1] < 135 * h[2] THEN "GreenKei"
  ELSE IF h[1] >= 135 * h[2] /\ h[1] < 165 * h[2] THEN "BlueGreenKei"
  ELSE IF h[1] >= 165 * h[2] /\ h[1] < 195 * h[2] THEN "CyanKei"
  ELSE IF h[1] >= 195 * h[2] /\ h[1] < 225 * h[2] THEN "SkyBlueKei"
  ELSE IF h[1] >= 225 * h[2] /\ h[1] < 255 * h[2] THEN "BlueKei"
  ELSE IF h[1] >= 255 * h[2] /\ h[1] < 285 * h[2] THEN "VioletKei"
  ELSE IF h[1] >= 285 * h[2] /\ h[1] < 315 * h[2] THEN "PurpleKei"
  ELSE IF h[1] >= 315 * h[2] /\ h[1] < 345 * h[2] THEN "MagentaKei"
  ELSE IF h[1] >= 345 * h[2] /\ h[1] <= 360 * h[2] THEN "RedKei"
  ELSE "CustomColor"

UtilThrown == [kind |-> "throw", value |-> <<>>]
UtilReturned(v) == [kind |-> "ok", value |-> v]

\* hsl[0] || 0 of a parsed colour: NaN and 0 both give 0.
HueOrZero(c) == IF HueIsNaN(c) THEN <<0, 1>> ELSE Hue(c)

\* getColorName of the advanced utilities (labels romanised): chroma(hex)
\* throws on a string it cannot parse.
getColorNameAdvanced(hex) ==
  LET p == chroma(hex) IN
  IF ~p.ok THEN UtilThrown
  ELSE LET c == p.rgb
           s == Saturation(c)
       IN UtilReturned(
            IF rgbToLabL(c) < 2000 THEN "DarkTone"
            ELSE IF rgbToLabL(c) > 8000 THEN "LightTone"
            ELSE IF 10 * s[1] < s[2] THEN "GrayTone"
            ELSE HueBand(HueOrZero(c)))

\* chroma.hsl((h + offset) % 360, s, l).hex(); (h - 30 + 360) % 360 is the
\* rotation by 330.
HarmonyColor(h, s, l, offset) == chromaHex(chromaHsl(RotateHue(h, offset), s, l))

\* The five families of a harmony.
HarmonyFamilies(h, s, l) ==
  [complementary |-> <<HarmonyColor(h, s, l, 180)>>,
   triadic |-> <<HarmonyColor(h, s, l, 120), HarmonyColor(h, s, l, 240)>>,
   tetradic |-> <<HarmonyColor(h, s, l, 90), HarmonyColor(h, s, l, 180),
                  HarmonyColor(h, s, l, 270)>>,
   analogous |-> <<HarmonyColor(h, s, l, 330), HarmonyColor(h, s, l, 30)>>,
   splitComplementary |-> <<HarmonyColor(h, s, l, 150), HarmonyColor(h, s, l, 210)>>]

\* calculateAdvancedHarmony: h = hsl[0] || 0, s = hsl[1] || 0.5,
\* l = hsl[2] || 0.5, so a saturation or lightness of 0 becomes 0.5.
calculateAdvancedHarmony(baseColor) ==
  LET p == chroma(baseColor) IN
  IF ~p.ok THEN UtilThrown
  ELSE LET c == p.rgb
           s == IF Saturation(c)[1] = 0 THEN <<1, 2>> ELSE Saturation(c)
           l == IF LightSum(c) = 0 THEN <<1, 2>> ELSE Lightness(c)
       IN UtilReturned(HarmonyFamilies(HueOrZero(c), s, l))

\* calculateHarmonyColors: hue, saturation and lightness default to 0; it
\* has no split-complementary family and gives the complementary colour as
\* a string.
calculateHarmonyColors(color) ==
  LET p == chroma(color.hex) IN
  IF ~p.ok THEN UtilThrown
  ELSE LET c == p.rgb
           f == HarmonyFamilies(HueOrZero(c), Saturation(c), Lightness(c))
       IN UtilReturned([complementary |-> f.complementary[1],
                        analogous |-> f.analogous,
                        triadic |-> f.triadic,
                        tetradic |-> f.tetradic])

\* Channel values handed to rgbToHex: integers of [0, 255].
ByteSamples == { 0, 1, 15, 16, 127, 128, 254, 255 }

\* Channel values handed to createColorInfo: any integer.
InfoChannels == { -5, 0, 128, 255, 300 }

\* Strings handed to hexToRgb.
HexInputs ==
  { <<"#","1","2","a","b","e","f">>, <<"1","2","A","B","E","F">>,
    <<"#","f","8","0">>, <<"f","8","0">>,
    <<"#","f","f","0","0","0","0","8","0">>, <<"#","f","0","0","8">>,
    <<"r","e","d">>,
    <<"#","1","2">>, <<"#","f","f","0","0","0">>, <<"#","g","g","g","g","g","g">>,
    <<"#","f","f","0","0","0","0","0">>, <<"#">>, <<>> }

\* Colours handed to the advanced getColorName: one per 15 degrees of hue at
\* middle lightness, then colours near 360 degrees, dark, light, gray and
\* primary ones.
NameColors ==
  { <<200, 80, 80>>,
    <<208, 112, 80>>,
    <<160, 100, 40>>,
    <<180, 150, 60>>,
    <<200, 200, 80>>,
    <<170, 200, 80>>,
    <<140, 200, 80>>,
    <<110, 200, 80>>,
    <<80, 200, 80>>,
    <<80, 200, 110>>,
    <<80, 200, 140>>,
    <<80, 200, 170>>,
    <<80, 200, 200>>,
    <<80, 170, 200>>,
    <<80, 140, 200>>,
    <<80, 110, 200>>,
    <<80, 80, 200>>,
    <<110, 80, 200>>,
    <<140, 80, 200>>,
    <<170, 80, 200>>,
    <<200, 80, 200>>,
    <<200, 80, 170>>,
    <<200, 80, 140>>,
    <<200, 80, 110>>,
    <<200, 80, 81>>,
    <<20, 10, 10>>,
    <<250, 240, 240>>,
    <<128, 128, 128>>,
    <<130, 125, 125>>,
    <<255, 0, 0>>,
    <<255, 255, 0>>,
    <<0, 0, 255>>,
    <<0, 0, 0>>,
    <<255, 255, 255>>,
    <<51, 102, 204>> }

NameInputs ==
  { rgbToHex(c[1], c[2], c[3]) : c \in NameColors } \cup { <<"#","1","2">> }

\* Base colours handed to the harmony functions.
HarmonyInputs ==
  { <<"#","f","f","0","0","0","0">>, <<"#","3","3","6","6","c","c">>,
    <<"#","f","f","a","5","0","0">>, <<"#","8","0","8","0","8","0">>,
    <<"#","0","0","0","0","0","0">>, <<"#","f","f","f","f","f","f">>,
    <<"#","1","2">> }

\* Colours handed to calculateHarmonyColors.
HarmonyColors ==
  { createColorInfo(255, 0, 0, "c1"), createColorInfo(51, 102, 204, "c2"),
    createColorInfo(255, 165, 0, "c3"), createColorInfo(128, 128, 128, "c4"),
    createColorInfo(0, 0, 0, "c5"), createColorInfo(255, 255, 255, "c6") }

\* getContrastRatio: chroma.contrast(color1, color2), in units of 1/10000;
\* chroma.contrast throws on a string it cannot parse.
getContrastRatio(c1, c2) ==
  IF ~chroma(c1).ok \/ ~chroma(c2).ok THEN UtilThrown
  ELSE UtilReturned(chromaContrast(chroma(c1), chroma(c2)))

UtilInit ==
  /\ utilCall = "none" /\ utilArg = <<>> /\ utilOut = [kind |-> "none"]
  /\ MixIdle /\ AnimIdle /\ DeIdle /\ WcagIdle /\ BlindIdle /\ UiIdle

OthersUnchanged == UNCHANGED <<mixVars, animVars, deVars, wcagVars, blindVars, uiVars>>

CallRgbToHex ==
  /\ utilCall = "none"
  /\ \E r \in ByteSamples, g \in ByteSamples, b \in ByteSamples :
       /\ utilArg' = <<r, g, b>>
       /\ utilOut' = UtilReturned(rgbToHex(r, g, b))
  /\ utilCall' = "rgbToHex"
  /\ OthersUnchanged

CallHexToRgb ==
  /\ utilCall = "none"
  /\ \E hex \in HexInputs :
       /\ utilArg' = hex
       /\ utilOut' = IF hexToRgb(hex).ok THEN UtilReturned(hexToRgb(hex).rgb)
                     ELSE UtilThrown
  /\ utilCall' = "hexToRgb"
  /\ OthersUnchanged

CallCreateColorInfo ==
  /\ utilCall = "none"
  /\ \E r \in InfoChannels, g \in InfoChannels, b \in InfoChannels, id \in NewIds :
       /\ utilArg' = <<r, g, b>>
       /\ utilOut' = UtilReturned(createColorInfo(r, g, b, id))
  /\ utilCall' = "createColorInfo"
  /\ OthersUnchanged

CallGetColorName ==
  /\ utilCall = "none"
  /\ \E hex \in NameInputs :
       /\ utilArg' = hex
       /\ utilOut' = getColorNameAdvanced(hex)
  /\ utilCall' = "getColorName"
  /\ OthersUnchanged

CallCalculateAdvancedHarmony ==
  /\ utilCall = "none"
  /\ \E baseColor \in HarmonyInputs :
       /\ utilArg' = baseColor
       /\ utilOut' = calculateAdvancedHarmony(baseColor)
  /\ utilCall' = "calculateAdvancedHarmony"
  /\ OthersUnchanged

CallCalculateHarmonyColors ==
  /\ utilCall = "none"
  /\ \E color \in HarmonyColors :
       /\ utilArg' = color
       /\ utilOut' = calculateHarmonyColors(color)
  /\ utilCall' = "calculateHarmonyColors"
  /\ OthersUnchanged

CallGetContrastRatio ==
  /\ utilCall = "none"
  /\ \E c1 \in WcagInputs, c2 \in WcagInputs :
       /\ utilArg' = <<c1, c2>>
       /\ utilOut' = getContrastRatio(c1, c2)
  /\ utilCall' = "getContrastRatio"
  /\ OthersUnchanged

\* Arguments generateColorMixingAnimation hands to getMixedColorAtProgress
\* for three or more colours: the progress of the boundary after stage k,
\* (k + 1) / (N - 1), or the progress 1/200 before it.
StageCalls ==
  { <<cs, k, IF below THEN <<200 * (k + 1) - (Len(cs) - 1), 200 * (Len(cs) - 1)>>
             ELSE <<k + 1, Len(cs) - 1>> >> :
      cs \in UNION { [1..n -> AnimPalette] : n \in 3..Max2(3, MaxAnimColors) },
      k \in 0..(Max2(3, MaxAnimColors) - 2), below \in BOOLEAN }

CallGetMixedColorAtProgress ==
  /\ utilCall = "none"
  /\ \E call \in StageCalls :
       /\ call[2] <= Len(call[1]) - 2
       /\ utilArg' = call
       /\ utilOut' = UtilReturned(getMixedColorAtProgress(call[1], call[3]))
  /\ utilCall' = "getMixedColorAtProgress"
  /\ OthersUnchanged

UtilNext ==
  \/ CallRgbToHex \/ CallHexToRgb \/ CallCreateColorInfo
  \/ CallGetColorName \/ CallCalculateAdvancedHarmony \/ CallCalculateHarmonyColors
  \/ CallGetContrastRatio \/ CallGetMixedColorAtProgress

SpecUtil == UtilInit /\ [][UtilNext]_vars

----------------------------------------------------------------------------
(* Harmony, classifier and converter properties.                           *)

\* The harmony families of a base colour at its own saturation and
\* lightness, the hue rotated by each family's offsets.
OwnHarmony(hex) ==
  LET c == chroma(hex).rgb
  IN HarmonyFamilies(HueOrZero(c), Saturation(c), Lightness(c))

\* C14: for every valid base colour, achromatic colours and black included,
\* every colour of calculateAdvancedHarmony's result has the base colour's
\* own saturation and lightness and the base hue rotated by the family's
\* offset modulo 360.
C14_HarmonyKeepsSaturationAndLightness ==
  (utilCall = "calculateAdvancedHarmony" /\ chroma(utilArg).ok)
    => (utilOut.kind = "ok" /\ utilOut.value = OwnHarmony(utilArg))

\* The twelve hue labels in the order of their bands, red first.
BandLabels ==
  << "RedKei", "OrangeKei", "YellowKei", "YellowGreenKei", "GreenKei",
     "BlueGreenKei", "CyanKei", "SkyBlueKei", "BlueKei", "VioletKei",
     "PurpleKei", "MagentaKei" >>

\* The 30-degree band a hue of [0, 360) lies in, counting from the band
\* that starts at 345 degrees and wraps around to 15.
BandIndex(h) == ((h[1] + 15 * h[2]) \div (30 * h[2])) % 12

\* The label the ordered rules give a parsed colour.
RuleLabel(c) ==
  IF rgbToLabL(c) < 2000 THEN "DarkTone"
  ELSE IF rgbToLabL(c) > 8000 THEN "LightTone"
  ELSE IF 10 * Saturation(c)[1] < Saturation(c)[2] THEN "GrayTone"
  ELSE BandLabels[BandIndex(HueOrZero(c)) + 1]

\* C15: for a valid hex getColorName returns, and the label is the one its
\* rules give in order: dark tone for L < 20, light tone for L > 80, gray
\* tone for saturation < 0.1, otherwise the one 30-degree hue band the hue
\* lies in, red wrapping around 360; the fall-through label is never
\* returned.
C15_ClassifierTotalInBands ==
  (utilCall = "getColorName" /\ chroma(utilArg).ok)
    => /\ utilOut.kind = "ok"
       /\ utilOut.value = RuleLabel(chroma(utilArg).rgb)
       /\ utilOut.value # "CustomColor"

\* A colour of middle lightness whose hue lies in [345, 360) was named red.
C15_Witness ==
  /\ utilCall = "getColorName" /\ chroma(utilArg).ok
  /\ rgbToLabL(chroma(utilArg).rgb) >= 2000
  /\ rgbToLabL(chroma(utilArg).rgb) <= 8000
  /\ 10 * Saturation(chroma(utilArg).rgb)[1] >= Saturation(chroma(utilArg).rgb)[2]
  /\ ~HueIsNaN(chroma(utilArg).rgb)
  /\ Hue(chroma(utilArg).rgb)[1] >= 345 * Hue(chroma(utilArg).rgb)[2]
  /\ utilOut = UtilReturned("RedKei")

\* C16: for any numeric r, g, b, values outside [0, 255] included, the
\* ColorInfo createColorInfo returns has rgb channels that are integers of
\* [0, 255] and a hex field that encodes exactly those channels.
C16_InfoChannelsClamped ==
  utilCall = "createColorInfo"
    => /\ utilOut.kind = "ok"
       /\ \A k \in 1..3 : utilOut.value.rgb[k] \in 0..255
       /\ hexToRgb(utilOut.value.hex).rgb = utilOut.value.rgb

\* C17: for integer channels of [0, 255], rgbToHex gives '#' followed by six
\* hex digits, and hexToRgb of that string gives the channels back exactly.
C17_RoundTripExact ==
  utilCall = "rgbToHex"
    => /\ utilOut.kind = "ok"
       /\ Len(utilOut.value) = 7
       /\ utilOut.value[1] = "#"
       /\ \A k \in 2..7 : \E d \in 1..16 : utilOut.value[k] = HexLower[d]
       /\ hexToRgb(utilOut.value).ok
       /\ hexToRgb(utilOut.value).rgb = utilArg

\* rgbToHex was called on channels whose two hex digits differ.
C17_Witness ==
  /\ utilCall = "rgbToHex"
  /\ utilArg = <<16, 1, 254>>
  /\ utilOut = UtilReturned(<<"#", "1", "0", "0", "1", "f", "e">>)
  /\ hexToRgb(utilOut.value).rgb = <<16, 1, 254>>

\* A 3-digit or 6-digit hex string, with or without the leading '#'.
IsShortOrLongHex(s) ==
  LET digits == IF Len(s) > 0 /\ s[1] = "#" THEN Tail(s) ELSE s
  IN /\ Len(digits) \in {3, 6}
     /\ \A k \in 1..Len(digits) : IsHexDigit(digits[k])

\* C18: hexToRgb raises an error for every input that is not a 3-digit or
\* 6-digit hex string; it neither truncates such an input nor returns a
\* colour for it.
C18_MalformedHexRejected ==
  (utilCall = "hexToRgb" /\ ~IsShortOrLongHex(utilArg)) => utilOut.kind = "throw"

----------------------------------------------------------------------------
(* The colour-difference and contrast functions taken together:            *)
(* calculateDeltaE2000, calculateDeltaE94, checkWCAGCompliance and         *)
(* getContrastRatio.                                                       *)

MetricsInit == DeInit \/ WcagInit \/ UtilInit

MetricsNext == DeNext \/ WcagNext \/ CallGetContrastRatio

SpecMetrics == MetricsInit /\ [][MetricsNext]_vars

\* Two strings that parse to the same colour.
SameColor(a, b) == chroma(a).ok /\ chroma(b).ok /\ chroma(a).rgb = chroma(b).rgb

\* C19: for every valid colour c, calculateDeltaE2000(c, c) and
\* calculateDeltaE94(c, c) return 0, and checkWCAGCompliance(c, c) reports
\* the contrast ratio 1.
C19_IdentityOfMetrics ==
  /\ (dePc = "done" /\ SameColor(color1, color2)) => deOut = DeReturned(0)
  /\ (wcagPc \in {"light", "dark", "done"} /\ SameColor(foreground, background)
        /\ wcagOut.kind # "none")
       => (wcagOut.kind = "ok" /\ wcagOut.contrastRatio = 100)
  /\ (wcagPc \in {"light", "dark"} /\ SameColor(foreground, background))
       => roundedRatio = 100

\* checkWCAGCompliance returned for a valid colour against itself, after its
\* suggestion search, with the ratio 1.
C19_Witness ==
  /\ wcagPc = "done"
  /\ foreground = background
  /\ chromaValid(foreground)
  /\ chromaLuminance(chroma(foreground).rgb) > 0
  /\ wcagOut.kind = "ok"
  /\ wcagOut.contrastRatio = 100

\* C20: the metrics are symmetric in their two arguments: what
\* calculateDeltaE2000 returned is what it returns for the arguments
\* exchanged; the contrast ratio checkWCAGCompliance reported is the one it
\* reports for the arguments exchanged, the ratio 1 of the empty result
\* when either argument is malformed; and getContrastRatio returns, or
\* throws, the same for both orders.
C20_MetricsSymmetric ==
  /\ (dePc = "done" /\ deCall = "calculateDeltaE2000")
       => deOut = calculateDeltaE2000(color2, color1)
  /\ (wcagPc = "done")
       => (/\ wcagOut.kind = "ok"
           /\ wcagOut.contrastRatio =
                IF chromaValid(background) /\ chromaValid(foreground)
                THEN RoundedContrast(background, foreground)
                ELSE createEmptyWCAGResult(background, foreground).contrastRatio)
  /\ (utilCall = "getContrastRatio")
       => utilOut = getContrastRatio(utilArg[2], utilArg[1])

\* checkWCAGCompliance returned for a lighter foreground on a darker
\* background a ratio above 1.
C20_Witness ==
  /\ wcagPc = "done"
  /\ chromaValid(foreground) /\ chromaValid(background)
  /\ chromaLuminance(chroma(foreground).rgb) > chromaLuminance(chroma(background).rgb)
  /\ wcagOut.contrastRatio > 100
  /\ wcagOut.contrastRatio = RoundedContrast(background, foreground)

----------------------------------------------------------------------------
(* Range of the contrast ratio.                                            *)

\* C21: the contrastRatio checkWCAGCompliance returns lies in [1, 21]; it is
\* exactly 21 for pure black against pure white, in either order, and 1 for
\* identical colours.
C21_ContrastRange ==
  wcagPc = "done" =>
    /\ wcagOut.contrastRatio >= 100
    /\ wcagOut.contrastRatio <= 2100
    /\ (BothValid /\ { chroma(foreground).rgb, chroma(background).rgb }
                       = { <<0, 0, 0>>, <<255, 255, 255>> })
         => wcagOut.contrastRatio = 2100
    /\ (BothValid /\ chroma(foreground).rgb = chroma(background).rgb)
         => wcagOut.contrastRatio = 100

\* checkWCAGCompliance returned 21 for black on white.
C21_Witness ==
  /\ wcagPc = "done"
  /\ chroma(foreground).ok /\ chroma(foreground).rgb = <<0, 0, 0>>
  /\ chroma(background).ok /\ chroma(background).rgb = <<255, 255, 255>>
  /\ wcagOut.contrastRatio = 2100

\* The contrast of a colour string against the background, in 1/10000.
ContrastOnBackground(c) == chromaContrast(chroma(c), chroma(background))

\* A step of a loop was accepted: its iteration count went up.
LightAccepted == wcagPc = "light" /\ lightIterations' = lightIterations + 1
DarkAccepted == wcagPc = "dark" /\ darkIterations' = darkIterations + 1

\* C30: every accepted adjustment step strictly increases the contrast
\* against the background and is taken only while the ratio is below 4.5,
\* so lightVersion and darkVersion each have a contrast against the
\* background that is at least the foreground's own; when the foreground
\* already meets 4.5, or no step was accepted, the suggestion is the
\* foreground unchanged.
C30_StepsImproveContrast ==
  /\ [][/\ LightAccepted =>
             /\ ContrastOnBackground(lightVersion') > ContrastOnBackground(lightVersion)
             /\ ContrastOnBackground(lightVersion) < targetRatio
        /\ DarkAccepted =>
             /\ ContrastOnBackground(darkVersion') > ContrastOnBackground(darkVersion)
             /\ ContrastOnBackground(darkVersion) < targetRatio]_vars
  /\ []((wcagPc = "done" /\ BothValid) =>
          /\ ContrastOnBackground(wcagOut.suggestions.lightVersion)
               >= ContrastOnBackground(foreground)
          /\ ContrastOnBackground(wcagOut.suggestions.darkVersion)
               >= ContrastOnBackground(foreground)
          /\ (roundedRatio >= 450 \/ lightIterations = 0)
               => wcagOut.suggestions.lightVersion = foreground
          /\ (roundedRatio >= 450 \/ darkIterations = 0)
               => wcagOut.suggestions.darkVersion = foreground)

----------------------------------------------------------------------------
(* Perturbation and stages of the mixing animation.                        *)

\* The adjusted progress the last frame was blended at.
LastAdjusted == AdjustedProgress(animI - 1, steps, lastJitter)

\* C22: the perturbation added to a frame's progress is at most 10% of the
\* step size 1/steps in magnitude, and the perturbed progress used for
\* blending lies in [0, 1].
C22_JitterWithinTenthOfStep ==
  (animPc = "loop" /\ animI > 0) =>
    /\ 10 * steps * lastJitter <= 100
    /\ 10 * steps * (0 - lastJitter) <= 100
    /\ LastAdjusted[1] >= 0
    /\ LastAdjusted[1] <= LastAdjusted[2]

\* The cumulative sequential mix of the first n colours.
CumulativeMix(cs, n) == MixLoop(SubSeq(cs, 1, n), 1, cs[1].hex)

\* The largest channel difference of two colour strings.
ChannelGap(a, b) ==
  LET x == chroma(a).rgb
      y == chroma(b).rgb
      d(k) == IF x[k] > y[k] THEN x[k] - y[k] ELSE y[k] - x[k]
  IN Max2(d(1), Max2(d(2), d(3)))

\* C23: for more than 2 colours the transition is gradual across the stage
\* boundaries: at the boundary after stage k the colour is the cumulative
\* mix of the first k + 2 colours, and just before the boundary it is
\* within a few channel units of that mix; so the first stage ends at the
\* 1/2 blend of colours 1 and 2, not at colour 2 alone.
C23_StagesJoin ==
  utilCall = "getMixedColorAtProgress" =>
    LET cs == utilArg[1]
        k == utilArg[2]
        target == CumulativeMix(cs, k + 2)
    IN /\ utilOut.kind = "ok"
       /\ ChannelGap(utilOut.value, target) <= 16
       /\ (utilArg[3] = <<k + 1, Len(cs) - 1>>) => utilOut.value = target

----------------------------------------------------------------------------
(* SpecDisplay: MiddleSchoolPaletteDisplay, its extracted colours and its  *)
(* selected colour.  A colour is the ColorInfo the handlers read: its hex. *)

\* The k-th new colour the image or a mixer produces.
Pixel(k) == [hex |-> rgbToHex(16 * k, 128, 64)]

\* palette.colors as passed by the parent: empty, or two colours.
DisplayPalettes ==
  { <<>>, <<[hex |-> rgbToHex(255, 0, 0)], [hex |-> rgbToHex(0, 0, 255)]>> }

\* [color, ...prev] without the cap.
AddExtractedUncapped(color, prev) == <<color>> \o prev

\* [color, ...prev].slice(0, 8)
AddExtracted(color, prev) ==
  SubSeq(<<color>> \o prev, 1, Min2(8, Len(prev) + 1))

\* prev.filter((_, i) => i !== index), index counted from 1 here.
RemoveAt(prev, index) ==
  [i \in 1..(Len(prev) - 1) |-> IF i < index THEN prev[i] ELSE prev[i + 1]]

\* newColors[0] || palette.colors[0] || null
FallbackSelection(newColors) ==
  IF Len(newColors) > 0 THEN newColors[1]
  ELSE IF Len(palette) > 0 THEN palette[1] ELSE null

PresentExtracted == { extractedColors[i] : i \in 1..Len(extractedColors) }

PresentColors == { palette[i] : i \in 1..Len(palette) } \cup PresentExtracted

\* What a click on the image or a drop may deliver: a colour not seen
\* before, or one that is already shown.
NewColor == IF sampled < MaxSamples THEN { Pixel(sampled + 1) } ELSE {}

IsNew(color) == color \in NewColor

\* A palette colour dragged onto the extracted-colours area of the mixer,
\* while it is not there yet.
DraggedPaletteColor ==
  { palette[i] : i \in 1..Min2(1, Len(palette)) } \ PresentExtracted

DisplayOthersUnchanged ==
  UNCHANGED <<mixVars, animVars, deVars, wcagVars, blindVars, utilVars,
              component, mixerVars, palette>>

DisplayInit ==
  /\ component = "MiddleSchoolPaletteDisplay" /\ MixerIdle
  /\ palette \in DisplayPalettes
  /\ extractedColors = <<>>
  /\ selectedColor = (IF Len(palette) > 0 THEN palette[1] ELSE null)
  /\ isEyedropperMode = FALSE /\ sampled = 0
  /\ MixIdle /\ AnimIdle /\ DeIdle /\ WcagIdle /\ BlindIdle /\ UtilIdle

Displayed == component = "MiddleSchoolPaletteDisplay"

toggleEyedropperMode ==
  /\ Displayed
  /\ isEyedropperMode' = ~isEyedropperMode
  /\ UNCHANGED <<extractedColors, selectedColor, sampled>>
  /\ DisplayOthersUnchanged

handleImageClick ==
  /\ Displayed /\ isEyedropperMode
  /\ \E extractedColor \in NewColor \cup PresentColors :
       LET isDuplicate ==
             \E c \in PresentColors : c.hex = extractedColor.hex
       IN IF isDuplicate
          THEN UNCHANGED <<extractedColors, selectedColor, sampled>>
          ELSE /\ extractedColors' = AddExtracted(extractedColor, extractedColors)
               /\ selectedColor' = extractedColor
               /\ sampled' = sampled + 1
  /\ UNCHANGED isEyedropperMode
  /\ DisplayOthersUnchanged

\* The mixer hands over a mixed colour, or a colour dragged onto its
\* extracted-colours area.
onColorExtracted ==
  /\ Displayed
  /\ \E color \in NewColor \cup DraggedPaletteColor :
       /\ extractedColors' = AddExtracted(color, extractedColors)
       /\ sampled' = IF IsNew(color) THEN sampled + 1 ELSE sampled
  /\ UNCHANGED <<selectedColor, isEyedropperMode>>
  /\ DisplayOthersUnchanged

handleRemoveExtractedColor ==
  /\ Displayed
  /\ \E index \in 1..Len(extractedColors) :
       LET colorToRemove == extractedColors[index]
           newColors == RemoveAt(extractedColors, index)
       IN /\ extractedColors' = newColors
          /\ selectedColor' =
               IF selectedColor # null /\ selectedColor.hex = colorToRemove.hex
               THEN FallbackSelection(newColors)
               ELSE selectedColor
  /\ UNCHANGED <<isEyedropperMode, sampled>>
  /\ DisplayOthersUnchanged

\* The clear-all button, rendered while extractedColors is not empty.
ClearAllExtracted ==
  /\ Displayed /\ Len(extractedColors) > 0
  /\ extractedColors' = <<>>
  /\ UNCHANGED <<selectedColor, isEyedropperMode, sampled>>
  /\ DisplayOthersUnchanged

handleColorSelect ==
  /\ Displayed
  /\ \E color \in PresentColors : selectedColor' = color
  /\ UNCHANGED <<extractedColors, isEyedropperMode, sampled>>
  /\ DisplayOthersUnchanged

DisplayNext ==
  \/ toggleEyedropperMode
  \/ handleImageClick
  \/ onColorExtracted
  \/ handleRemoveExtractedColor
  \/ ClearAllExtracted
  \/ handleColorSelect

SpecDisplay == DisplayInit /\ [][DisplayNext]_vars

\* C27: every step of MiddleSchoolPaletteDisplay leaves at most 8 extracted
\* colours, and a step that adds a colour (eyedropper click or mixer
\* extraction) puts it first, keeps the earlier ones in their order behind it
\* and drops the oldest one when there were 8 already.
C27_ExtractedKeepsNewestEight ==
  [][ /\ Len(extractedColors') <= 8
      /\ (/\ extractedColors' # extractedColors
          /\ Len(extractedColors') >= Len(extractedColors)) =>
            extractedColors' =
              SubSeq(<<extractedColors'[1]>> \o extractedColors,
                     1, Min2(8, Len(extractedColors) + 1)) ]_vars

C27_Witness ==
  /\ Displayed /\ sampled = 9 /\ Len(extractedColors) = 8
  /\ extractedColors[1] = Pixel(9) /\ extractedColors[8] = Pixel(2)

\* C29: in MiddleSchoolPaletteDisplay the selected colour is null or one of
\* the colours now in palette.colors or extractedColors.
C29_SelectionPresent ==
  Displayed => (selectedColor = null \/ selectedColor \in PresentColors)

----------------------------------------------------------------------------
(* Timers.  Time is counted in units of 100 ms.  A pending setTimeout is a  *)
(* record of what its callback will do and of the time left; callbacks     *)
(* that are due run in the order the timers were set.  The frame timers of *)
(* an animation before the last one only move currentAnimationFrame, which *)
(* the model leaves out; the last frame's timer is kept.                   *)

Timer(kind, m, cs, left) == [kind |-> kind, mixer |-> m, colors |-> cs, left |-> left]

Due == { i \in 1..Len(timers) : timers[i].left = 0 }

\* The timer whose callback runs next.
NextDue == CHOOSE i \in Due : \A j \in Due : i <= j

MinLeft ==
  CHOOSE t \in { timers[i].left : i \in 1..Len(timers) } :
    \A i \in 1..Len(timers) : t <= timers[i].left

\* The timers left after the callback of the next due one has set `more`.
AfterFire(more) == RemoveAt(timers, NextDue) \o more

\* Time passes until the next timer is due.
AdvanceTime ==
  /\ component \in {"ElementaryColorMixer", "MiddleSchoolColorMixer"}
  /\ timers # <<>> /\ Due = {}
  /\ timers' = [i \in 1..Len(timers) |->
                  [timers[i] EXCEPT !.left = timers[i].left - MinLeft]]
  /\ UNCHANGED <<mixingColors, mixedColor, isAnimating, animatingMixer,
                 isAnimatingMixer, processingRef, lastMixedRef, userEvents>>
  /\ UNCHANGED <<mixVars, animVars, deVars, wcagVars, blindVars, utilVars,
                 component, displayVars>>

\* The colours the user drags onto the mixers.
DropColors == { c \in Palette : c.id \in {"c1", "c2", "c3"} }

MixerOthersUnchanged ==
  UNCHANGED <<mixVars, animVars, deVars, wcagVars, blindVars, utilVars,
              component, displayVars>>

----------------------------------------------------------------------------
(* SpecElementary: the mixers of ElementaryColorMixer.                     *)

\* The mixers the user works with.
ElementaryMixers == {1}

\* What the 41 frame delays of calculateAnimationDelay can add up to
\* (between 670 ms and 1280 ms).
ElementaryFrameTimes == {7, 12}

ElementaryStartDelay == 3
ElementaryFinalDelay == 10
ElementaryEndDelay == 5

Elementary == component = "ElementaryColorMixer"

ElementaryInit ==
  /\ component = "ElementaryColorMixer"
  /\ mixingColors = [m \in Mixers |-> <<>>]
  /\ mixedColor = [m \in Mixers |-> null]
  /\ isAnimating = [m \in Mixers |-> FALSE] /\ animatingMixer = 0
  /\ isAnimatingMixer = [m \in Mixers |-> FALSE]
  /\ processingRef = FALSE /\ lastMixedRef = <<>>
  /\ timers = <<>> /\ userEvents = 0
  /\ DisplayIdle
  /\ MixIdle /\ AnimIdle /\ DeIdle /\ WcagIdle /\ BlindIdle /\ UtilIdle

Elementary_handleColorMix ==
  /\ Elementary /\ userEvents < MaxUserEvents
  /\ \E color \in DropColors, mixerIndex \in ElementaryMixers :
       LET currentMixingColors == mixingColors[mixerIndex]
           isDuplicate == \E i \in 1..Len(currentMixingColors) :
                            currentMixingColors[i].hex = color.hex
           newMixingColors == Append(currentMixingColors, color)
       IN /\ ~isDuplicate
          /\ mixingColors' = [mixingColors EXCEPT ![mixerIndex] = newMixingColors]
          /\ timers' =
               IF Len(newMixingColors) >= 2
               THEN Append(timers, Timer("start", mixerIndex, newMixingColors,
                                         ElementaryStartDelay))
               ELSE timers
  /\ userEvents' = userEvents + 1
  /\ UNCHANGED <<mixedColor, isAnimating, animatingMixer, isAnimatingMixer,
                 processingRef, lastMixedRef>>
  /\ MixerOthersUnchanged

\* The clear button, rendered while the mixer holds a colour.
Elementary_handleClearMixer ==
  /\ Elementary /\ userEvents < MaxUserEvents
  /\ \E mixerIndex \in ElementaryMixers :
       /\ Len(mixingColors[mixerIndex]) > 0
       /\ mixingColors' = [mixingColors EXCEPT ![mixerIndex] = <<>>]
       /\ mixedColor' = [mixedColor EXCEPT ![mixerIndex] = null]
       /\ isAnimating' = [isAnimating EXCEPT ![mixerIndex] = FALSE]
       /\ animatingMixer' =
            IF animatingMixer = mixerIndex THEN 0 ELSE animatingMixer
  /\ userEvents' = userEvents + 1
  /\ UNCHANGED <<isAnimatingMixer, processingRef, lastMixedRef, timers>>
  /\ MixerOthersUnchanged

\* The callback set by handleColorMix runs startMixingAnimation.
Elementary_startMixingAnimation ==
  /\ Elementary /\ Due # {} /\ timers[NextDue].kind = "start"
  /\ LET t == timers[NextDue] IN
       /\ mixedColor' = [mixedColor EXCEPT ![t.mixer] = null]
       /\ isAnimating' = [isAnimating EXCEPT ![t.mixer] = TRUE]
       /\ animatingMixer' = t.mixer
       /\ \E d \in ElementaryFrameTimes :
            timers' = AfterFire(<<Timer("lastFrame", t.mixer, t.colors, d)>>)
  /\ UNCHANGED <<mixingColors, isAnimatingMixer, processingRef, lastMixedRef,
                 userEvents>>
  /\ MixerOthersUnchanged

\* The last frame's callback sets the timer of the final colour.
Elementary_lastFrame ==
  /\ Elementary /\ Due # {} /\ timers[NextDue].kind = "lastFrame"
  /\ LET t == timers[NextDue] IN
       timers' = AfterFire(<<Timer("final", t.mixer, t.colors, ElementaryFinalDelay)>>)
  /\ UNCHANGED <<mixingColors, mixedColor, isAnimating, animatingMixer,
                 isAnimatingMixer, processingRef, lastMixedRef, userEvents>>
  /\ MixerOthersUnchanged

\* The final colour: setMixedColor and onColorMixed with the mix of the
\* colours the animation was started with.
Elementary_finalMixed ==
  /\ Elementary /\ Due # {} /\ timers[NextDue].kind = "final"
  /\ LET t == timers[NextDue] IN
       /\ \E newId \in NewIds :
            mixedColor' =
              [mixedColor EXCEPT ![t.mixer] = mixMultipleColors(t.colors, newId).value]
       /\ timers' = AfterFire(<<Timer("end", t.mixer, t.colors, ElementaryEndDelay)>>)
  /\ UNCHANGED <<mixingColors, isAnimating, animatingMixer, isAnimatingMixer,
                 processingRef, lastMixedRef, userEvents>>
  /\ MixerOthersUnchanged

\* The end of the animation state.
Elementary_animationEnd ==
  /\ Elementary /\ Due # {} /\ timers[NextDue].kind = "end"
  /\ LET t == timers[NextDue] IN
       /\ isAnimating' = [isAnimating EXCEPT ![t.mixer] = FALSE]
       /\ animatingMixer' = 0
       /\ timers' = AfterFire(<<>>)
  /\ UNCHANGED <<mixingColors, mixedColor, isAnimatingMixer, processingRef,
                 lastMixedRef, userEvents>>
  /\ MixerOthersUnchanged

ElementaryNext ==
  \/ Elementary_handleColorMix
  \/ Elementary_handleClearMixer
  \/ Elementary_startMixingAnimation
  \/ Elementary_lastFrame
  \/ Elementary_finalMixed
  \/ Elementary_animationEnd
  \/ AdvanceTime

SpecElementary == ElementaryInit /\ [][ElementaryNext]_vars

\* C24: a mixer shows a mixed colour only while it holds at least 2 colours:
\* after handleClearMixer(m) the mixed result of m stays null until a colour
\* is added again, whatever timers of an animation of m are still pending.
C24_ResultNeedsTwoColours ==
  \A m \in Mixers : mixedColor[m] # null => Len(mixingColors[m]) >= 2

\* An animation of mixer m has been started and its final colour is not
\* set yet.
InProgress(m) ==
  \E i \in 1..Len(timers) :
     timers[i].mixer = m /\ timers[i].kind \in {"lastFrame", "final"}

\* mixMultipleColors of the list mixer m holds now.
BlendOfCurrentList(m) == mixMultipleColors(mixingColors[m], "color_x").value.hex

\* C26: in ElementaryColorMixer, once no timer is pending a mixer that holds
\* 2 or more colours shows the blend of exactly that list, and no step
\* other than a clear drops the animating flag of a mixer while an animation
\* of that mixer is still in progress.
C26_LatestBlendWins ==
  /\ [][ Elementary =>
           \A m \in Mixers :
              (/\ isAnimating[m] /\ ~isAnimating'[m]
               /\ mixingColors'[m] = mixingColors[m]) => ~InProgress(m)' ]_vars
  /\ [](Elementary /\ timers = <<>> =>
          \A m \in Mixers :
             Len(mixingColors[m]) >= 2 => mixedColor[m].hex = BlendOfCurrentList(m))

----------------------------------------------------------------------------
(* SpecMiddle: the mixers of MiddleSchoolColorMixer.  processingRef and    *)
(* lastMixedRef are one pair of refs for the three mixers.                 *)

\* The mixers the user works with, and the colours dragged onto each.
MiddleMixers == {1, 2}

MiddleDrops(mixerIndex) ==
  IF mixerIndex = 1 THEN Palette
  ELSE { c \in Palette : c.id \in {"c1", "c2"} }

\* What the 46 frame delays of calculateAnimationDelay can add up to
\* (between 750 ms and 1430 ms).
MiddleFrameTimes == {8, 14}

MiddleDropDelay == 1
MiddleStartDelay == 2
MiddleReleaseDelay == 1
MiddleFinalDelay == 12
MiddleEndDelay == 6

\* What generateColorId() draws for a mixed colour.
MiddleIds == { "color_x" }

Middle == component = "MiddleSchoolColorMixer"

MiddleInit ==
  /\ component = "MiddleSchoolColorMixer" /\ MixerIdle /\ DisplayIdle
  /\ MixIdle /\ AnimIdle /\ DeIdle /\ WcagIdle /\ BlindIdle /\ UtilIdle

\* `mixer-${mixerIndex}-${hexes sorted and joined}`: the mixer and the set
\* of its hexes.
colorKey(colorsToMix, mixerIndex) ==
  <<mixerIndex, { colorsToMix[i].hex : i \in 1..Len(colorsToMix) }>>

\* The length check of handleColorMix with the cap off by one.
MixerFullOffByOne(currentMixingColors) == Len(currentMixingColors) > 3

MixerFull(currentMixingColors) == Len(currentMixingColors) >= 3

\* A drop or a touch-drop.  A duplicate or a drop on a full mixer returns
\* at once.
Middle_handleColorMix ==
  /\ Middle /\ userEvents < MaxUserEvents
  /\ \E mixerIndex \in MiddleMixers :
     \E color \in MiddleDrops(mixerIndex) :
       LET currentMixingColors == mixingColors[mixerIndex]
           isDuplicate == \E i \in 1..Len(currentMixingColors) :
                            currentMixingColors[i].hex = color.hex
           newMixingColors == Append(currentMixingColors, color)
       IN IF isDuplicate \/ MixerFull(currentMixingColors)
          THEN UNCHANGED <<mixingColors, timers>>
          ELSE /\ mixingColors' =
                    [mixingColors EXCEPT ![mixerIndex] = newMixingColors]
               /\ timers' =
                    IF Len(newMixingColors) >= 2
                    THEN Append(timers, Timer("perform", mixerIndex,
                                              newMixingColors, MiddleDropDelay))
                    ELSE timers
  /\ userEvents' = userEvents + 1
  /\ UNCHANGED <<mixedColor, isAnimating, animatingMixer, isAnimatingMixer,
                 processingRef, lastMixedRef>>
  /\ MixerOthersUnchanged

\* The buttons of a mixer's colour list are rendered while the mixer is not
\* animating and holds a colour.
ListShown(mixerIndex) ==
  ~isAnimatingMixer[mixerIndex] /\ Len(mixingColors[mixerIndex]) > 0

Middle_handleClearMixer ==
  /\ Middle /\ userEvents < MaxUserEvents
  /\ \E mixerIndex \in MiddleMixers :
       /\ ListShown(mixerIndex)
       /\ mixingColors' = [mixingColors EXCEPT ![mixerIndex] = <<>>]
       /\ mixedColor' = [mixedColor EXCEPT ![mixerIndex] = null]
       /\ isAnimatingMixer' = [isAnimatingMixer EXCEPT ![mixerIndex] = FALSE]
       /\ lastMixedRef' = <<>>
  /\ userEvents' = userEvents + 1
  /\ UNCHANGED <<isAnimating, animatingMixer, processingRef, timers>>
  /\ MixerOthersUnchanged

\* currentColors.filter(c => c.hex !== colorToRemove.hex)
WithoutHex(currentColors, hex) ==
  SelectSeq(currentColors, LAMBDA c : c.hex # hex)

Middle_handleRemoveMixingColor ==
  /\ Middle /\ userEvents < MaxUserEvents
  /\ \E mixerIndex \in MiddleMixers :
       /\ ListShown(mixerIndex)
       /\ \E k \in 1..Len(mixingColors[mixerIndex]) :
            LET colorToRemove == mixingColors[mixerIndex][k]
                newColors == WithoutHex(mixingColors[mixerIndex], colorToRemove.hex)
            IN /\ mixingColors' = [mixingColors EXCEPT ![mixerIndex] = newColors]
               /\ IF Len(newColors) >= 2
                  THEN /\ timers' = Append(timers, Timer("perform", mixerIndex,
                                                         newColors, MiddleDropDelay))
                       /\ UNCHANGED <<mixedColor, lastMixedRef>>
                  ELSE /\ mixedColor' = [mixedColor EXCEPT ![mixerIndex] = null]
                       /\ lastMixedRef' = <<>>
                       /\ UNCHANGED timers
  /\ userEvents' = userEvents + 1
  /\ UNCHANGED <<isAnimating, animatingMixer, isAnimatingMixer, processingRef>>
  /\ MixerOthersUnchanged

\* The callback set by handleColorMix or handleRemoveMixingColor.
performMixing ==
  /\ Middle /\ Due # {} /\ timers[NextDue].kind = "perform"
  /\ LET t == timers[NextDue] IN
       IF \/ Len(t.colors) < 2 \/ processingRef
          \/ lastMixedRef = colorKey(t.colors, t.mixer)
       THEN /\ timers' = AfterFire(<<>>)
            /\ UNCHANGED <<processingRef, isAnimating, lastMixedRef>>
       ELSE /\ processingRef' = TRUE
            /\ isAnimating' = TRUE
            /\ lastMixedRef' = colorKey(t.colors, t.mixer)
            /\ timers' = AfterFire(<<Timer("start", t.mixer, t.colors,
                                           MiddleStartDelay)>>)
  /\ UNCHANGED <<mixingColors, mixedColor, animatingMixer, isAnimatingMixer,
                 userEvents>>
  /\ MixerOthersUnchanged

\* The callback set by performMixing: startMixingAnimation, then the timer
\* that releases processingRef.
Middle_startMixingAnimation ==
  /\ Middle /\ Due # {} /\ timers[NextDue].kind = "start"
  /\ LET t == timers[NextDue] IN
       /\ mixedColor' = [mixedColor EXCEPT ![t.mixer] = null]
       /\ isAnimatingMixer' = [isAnimatingMixer EXCEPT ![t.mixer] = TRUE]
       /\ \E d \in MiddleFrameTimes :
            timers' = AfterFire(<<Timer("lastFrame", t.mixer, t.colors, d),
                                  Timer("release", t.mixer, t.colors,
                                        MiddleReleaseDelay)>>)
  /\ UNCHANGED <<mixingColors, isAnimating, animatingMixer, processingRef,
                 lastMixedRef, userEvents>>
  /\ MixerOthersUnchanged

Middle_releaseProcessing ==
  /\ Middle /\ Due # {} /\ timers[NextDue].kind = "release"
  /\ isAnimating' = FALSE
  /\ processingRef' = FALSE
  /\ timers' = AfterFire(<<>>)
  /\ UNCHANGED <<mixingColors, mixedColor, animatingMixer, isAnimatingMixer,
                 lastMixedRef, userEvents>>
  /\ MixerOthersUnchanged

Middle_lastFrame ==
  /\ Middle /\ Due # {} /\ timers[NextDue].kind = "lastFrame"
  /\ LET t == timers[NextDue] IN
       timers' = AfterFire(<<Timer("final", t.mixer, t.colors, MiddleFinalDelay)>>)
  /\ UNCHANGED <<mixingColors, mixedColor, isAnimating, animatingMixer,
                 isAnimatingMixer, processingRef, lastMixedRef, userEvents>>
  /\ MixerOthersUnchanged

Middle_finalMixed ==
  /\ Middle /\ Due # {} /\ timers[NextDue].kind = "final"
  /\ LET t == timers[NextDue] IN
       /\ \E newId \in MiddleIds :
            mixedColor' =
              [mixedColor EXCEPT ![t.mixer] = mixMultipleColors(t.colors, newId).value]
       /\ timers' = AfterFire(<<Timer("end", t.mixer, t.colors, MiddleEndDelay)>>)
  /\ UNCHANGED <<mixingColors, isAnimating, animatingMixer, isAnimatingMixer,
                 processingRef, lastMixedRef, userEvents>>
  /\ MixerOthersUnchanged

Middle_animationEnd ==
  /\ Middle /\ Due # {} /\ timers[NextDue].kind = "end"
  /\ LET t == timers[NextDue] IN
       /\ isAnimatingMixer' = [isAnimatingMixer EXCEPT ![t.mixer] = FALSE]
       /\ timers' = AfterFire(<<>>)
  /\ UNCHANGED <<mixingColors, mixedColor, isAnimating, animatingMixer,
                 processingRef, lastMixedRef, userEvents>>
  /\ MixerOthersUnchanged

MiddleNext ==
  \/ Middle_handleColorMix
  \/ Middle_handleClearMixer
  \/ Middle_handleRemoveMixingColor
  \/ performMixing
  \/ Middle_startMixingAnimation
  \/ Middle_releaseProcessing
  \/ Middle_lastFrame
  \/ Middle_finalMixed
  \/ Middle_animationEnd
  \/ AdvanceTime

SpecMiddle == MiddleInit /\ [][MiddleNext]_vars

\* C25: in MiddleSchoolColorMixer a result can only be set by a pending
\* timer, so a list of 2 or more colours for which a mixed result is
\* eventually set leaves, once no timer is pending, a mixer that shows a
\* result: a mixer with 2 or more colours and no timer pending has a mixed
\* colour, whatever the other mixers did meanwhile.
C25_ListOfTwoGetsResult ==
  (Middle /\ timers = <<>>) =>
     \A m \in Mixers : Len(mixingColors[m]) >= 2 => mixedColor[m] # null

DistinctHexes(cs) ==
  \A i \in 1..Len(cs) : \A j \in 1..Len(cs) : cs[i].hex = cs[j].hex => i = j

PerformTimers(ts, m) ==
  Cardinality({ i \in 1..Len(ts) : ts[i].kind = "perform" /\ ts[i].mixer = m })

\* C28: every step of MiddleSchoolColorMixer leaves each mixer with at most
\* 3 colours of pairwise different hex, and a step that leaves a mixer's
\* list as it was (a rejected drop among them) sets no performMixing timer
\* for that mixer.
C28_AtMostThreeDistinct ==
  [][ Middle =>
        \A m \in Mixers :
           /\ Len(mixingColors'[m]) <= 3
           /\ DistinctHexes(mixingColors'[m])
           /\ mixingColors'[m] = mixingColors[m] =>
                PerformTimers(timers', m) <= PerformTimers(timers, m) ]_vars

\* Three colours in mixer 1 after four user events, mixer 2 never used: one
\* of the four events was a drop that was turned away.
C28_Witness ==
  /\ Middle /\ userEvents = 4 /\ Len(mixingColors[1]) = 3
  /\ mixingColors[2] = <<>> /\ mixedColor[2] = null /\ timers # <<>>

----------------------------------------------------------------------------
(* The program as a whole: any one entry point of the library is called,   *)
(* or one of the components is mounted and used.                           *)

Init ==
  \/ MixInit \/ AnimInit \/ DeInit \/ WcagInit \/ BlindInit \/ UtilInit
  \/ DisplayInit \/ ElementaryInit \/ MiddleInit

Next ==
  \/ MixNext \/ AnimNext \/ DeNext \/ WcagNext \/ BlindNext \/ UtilNext
  \/ DisplayNext \/ ElementaryNext \/ MiddleNext

Spec == Init /\ [][Next]_vars

============================================================================
